---- MODULE Spec2Model ----
(***************************************************************************)
(* Model of the memory profiler: the allocation ledger (MemoryTracker),    *)
(* the operator new/delete hook layer with its thread-local reentrancy     *)
(* flag and callsite context, the callback registry and the telemetry      *)
(* client (SocketClient).                                                  *)
(*                                                                         *)
(* Spec           one thread allocates and frees through the hook layer    *)
(* SpecThreads    several threads do                                       *)
(* SpecTracker    a harness calls MemoryTracker::onAlloc / onFree directly *)
(* SpecRegistry   register_callbacks / get_callbacks called by threads     *)
(* SpecClient     the telemetry client, its application and a collector    *)
(* SpecClientLive the same with a worker thread that keeps running         *)
(* SpecQuery      one thread calls the query API and builds telemetry      *)
(*                frames between its allocations                           *)
(* SpecExport     threads export the live blocks concurrently              *)
(* SpecSerializer the texts the query API returns                          *)
(***************************************************************************)
EXTENDS Integers, Sequences, FiniteSets, TLC

\* ---------------------------------------------------------------- bounds
NThreads  == 2    \* application threads
NAddr     == 2    \* distinct non-null addresses malloc can return
MaxSize   == 2    \* largest size a harness passes to the tracker
MaxReq    == 1    \* largest size requested from operator new
MaxAllocs == 3    \* cap on total_allocs_ (an unbounded counter) for a harness
MaxTracked == 2   \* cap on total_allocs_ for allocations through the hooks
MaxDepth  == 2    \* cap on the nesting of regions and calls on one thread
MaxRx     == 18   \* cap on the bytes a collector sends on one connection
MaxFails  == 6    \* the count of failed connects in a row stops here
MaxExportId == 5  \* cap on g_alloc_id (an unbounded counter) where blocks are exported
MaxStr    == 3    \* longest file name given to the JSON writer
MaxBlocks == 2    \* most blocks given to the CSV writer
MaxScopes == 2    \* cap on the nesting of ScopedCallsite scopes on one thread
MaxLaunches == 3  \* cap on the threads start() launches where callers race

Threads == 1..NThreads
Addrs   == 1..NAddr
Sizes   == 0..MaxSize
ReqSizes == 0..MaxReq

\* nullptr as a pointer to a block, and nullptr as a const char*
NULL    == 0
NullStr == "nullptr"

\* values a call site can attach
Files     == {"a.cpp"}
LineNos   == {7}
TypeNames == {"T"}

VARIABLES
    live,           \* MemoryTracker::live_   : address -> AllocationRecord
    total_allocs,   \* MemoryTracker::total_allocs_
    active_allocs,  \* MemoryTracker::active_allocs_
    active_bytes,   \* MemoryTracker::active_bytes_
    peak_bytes,     \* MemoryTracker::peak_bytes_
    mu,             \* MemoryTracker::mu_     : 0 or the thread holding it
    g_alloc_id,     \* CallbacksRegistration.cpp g_alloc_id
    g_cb,           \* Callbacks.cpp g_cb     : slot -> "empty" | "noop" | "mt"
    g_init_once,    \* Callbacks.cpp g_init_once
    heap,           \* blocks obtained from malloc and not yet given to free
    held,           \* blocks the application got from new and has not deleted
    internal,       \* blocks the tracking path got from new and has not deleted
    in_hook,        \* mp::in_hook, per thread
    g_callsite,     \* mp::g_callsite, per thread
    stk,            \* per thread, the open regions and hook calls, innermost last
    lastCall,       \* the call that returned in the last step, if one did (history)
    reg,            \* the register_callbacks call in progress, if any
    seen,           \* what the last step's get_callbacks() showed (history)
    running_,       \* SocketClient::Impl::running_
    sock_,          \* SocketClient::Impl::sock_ : -1 or the descriptor
    wpc,            \* position of the worker thread in runLoop
    spc,            \* position of the application thread in stop()
    backoff_ms,     \* runLoop's backoff_ms
    rxBuffer,       \* runLoop's rxBuffer
    next_metrics,   \* runLoop's next_metrics, as ms from now (0: it has arrived)
    rxConn,         \* the bytes received on the current connection (history)
    nLive,          \* LIVE_ALLOCS frames sent on the current connection (history)
    sinceLoss,      \* ms since a connection was lost, -1: none to retry (history)
    fails,          \* failed connect attempts in a row (history)
    host_,          \* SocketClient::Impl::host_
    port_,          \* SocketClient::Impl::port_
    loops,          \* runLoop threads launched and not yet ended (history)
    sinceStop,      \* ms since stop() cleared running_, -1: it has not (history)
    xpc,            \* per thread, its position in cb.liveBlocks
    recs,           \* per thread, the records of liveBlocks's recs not yet converted
    out,            \* per thread, the alloc_id of the blocks in liveBlocks's out
    exportedIds,    \* every alloc_id given to an exported block (history)
    arg,            \* the serializer call a harness made and its argument
    res,            \* the text that call returned, until the harness releases it
    call,           \* per thread, the direct tracker call it is in, if any
    noted,          \* address -> the record of the last completed onAlloc that
                    \* no completed onFree has followed (history)
    scopes,         \* per thread, its live ScopedCallsite objects, innermost last
    m_,             \* SocketClient::Impl::m_ : 0 or the thread that holds it
    worker_,        \* SocketClient::Impl::worker_ : 0 (not joinable) or the
                    \* runLoop thread the handle stands for
    alive,          \* the runLoop threads launched and not yet ended
    launched,       \* the runLoop threads launched so far (history)
    app,            \* per thread, its position in start() or stop() when
                    \* several threads call them
    terminated,     \* std::terminate has been called
    ev              \* what the client's last step did (history)

trackerVars == <<live, total_allocs, active_allocs, active_bytes, peak_bytes>>
vars == <<live, total_allocs, active_allocs, active_bytes, peak_bytes, mu,
          g_alloc_id, g_cb, g_init_once, heap, held, internal, in_hook,
          g_callsite, stk, lastCall, reg, seen, running_, sock_, wpc, spc,
          backoff_ms, rxBuffer, next_metrics, rxConn, nLive, sinceLoss, fails,
          host_, port_, loops, sinceStop, xpc, recs, out, exportedIds,
          arg, res, call, noted, scopes, m_, worker_, alive, launched, app,
          terminated, ev>>

\* the telemetry client
clientVars == <<running_, sock_, wpc, spc, backoff_ms, rxBuffer, next_metrics,
                rxConn, nLive, sinceLoss, fails, host_, port_, loops,
                sinceStop, ev>>

\* the exports of live blocks in progress
exportVars == <<xpc, recs, out, exportedIds>>

\* a serializer call and its result
serVars == <<arg, res>>

\* the direct calls of the tracker in progress
callVars == <<call, noted>>

\* start() and stop() called by several threads
raceVars == <<m_, worker_, alive, launched, app, terminated>>

\* the state beside the ledger, the hook layer, the registry, the client,
\* the exports and the serializers
sideVars == <<callVars, scopes, raceVars>>

\* the state outside the ledger and the hook layer
restVars == <<reg, seen, clientVars, exportVars, serVars, sideVars>>

\* ------------------------------------------------------------ data types
\* CallsiteInfo{} : file = nullptr, line = 0, type_name = nullptr
EmptyCallsite == [file |-> NullStr, line |-> 0, type_name |-> NullStr]

Slots == {"onAlloc", "onFree", "bytesInUse", "peakBytes", "allocCount",
          "snapshot", "liveBlocks"}

\* AllocationRecord; the key of live_ is its ptr. timestamp_ns and thread_id are
\* stamped from the clock and the calling thread and read by no tracker code:
\* the fields the caller passes are kept.
AllocationRecord(p, sz, type, file, line, isArray) ==
    [ptr |-> p, size |-> sz, type_name |-> type, file |-> file, line |-> line,
     is_array |-> isArray]

\* lastCall when the last step returned from no call
NoCall == [kind |-> "none", t |-> 0, p |-> NULL, sz |-> 0, args |-> EmptyCallsite,
           arr |-> FALSE, had |-> FALSE, guarded |-> FALSE, ncb |-> 0, nfree |-> 0]

\* the ledger of a tracker that has seen no call
NoLedger == [live |-> <<>>, total_allocs |-> 0, active_allocs |-> 0,
             active_bytes |-> 0, peak_bytes |-> 0]

\* a frame of stk: an open guard region, or a hook call that is in progress.
\* prev is the guard object's member (the flag at entry for a hook call, which
\* keeps no such member); pre is history: the flag at entry. led and own are
\* history, written when a query or a telemetry frame begins: the ledger and
\* the blocks the application held at that moment.
Frame(kind, pc, p, sz, arr, cs, prev, cb) ==
    [kind |-> kind, pc |-> pc, p |-> p, sz |-> sz, arr |-> arr, cs |-> cs,
     prev |-> prev, pre |-> prev, cb |-> cb, led |-> NoLedger, own |-> {}]

\* ScopedHookGuard and AntiReentry have the same member and the same bodies:
\* an open region of either is a "guard" frame
GuardKinds == {"guard"}
HookKinds  == {"new", "delete"}

\* a call of the synchronous query API by application code, up to the release
\* of its result ("query"), and the block of runLoop that builds and sends one
\* frame under an AntiReentry guard ("frame")
SpanKinds  == {"query", "frame"}

\* constants of SocketClient::Impl::runLoop
kBaseBackoffMs    == 200
kMaxBackoffMs     == 3000
kConnectTimeoutMs == 2000
kPollTickMs       == 50
kMetricsMs        == 200

\* the descriptor connectToServer returns on success
Fd == 3

\* the client's last step was none of the steps below. dt: ms that passed in
\* the step; gap: sinceLoss when a connect attempt began; wait, k: the ms slept
\* after the k-th failed attempt in a row; replies: LIVE_ALLOCS frames sent;
\* due: the push time had arrived at the test; push: what became of the SUMMARY
\* frame; lost: the step closed an open connection after a failure; late:
\* sinceStop when the loop ended
NoEvent == [kind |-> "none", dt |-> 0, gap |-> -1, wait |-> 0, k |-> 0,
            replies |-> 0, due |-> FALSE, push |-> "none", lost |-> FALSE,
            late |-> -1]

\* thread t is neither in start() nor in stop(); th: the thread its
\* std::thread temporary stands for
NotCalling == [pc |-> "idle", th |-> 0]

\* no serializer call has returned a text that is still held
NoArg    == [fn |-> "none", v |-> <<>>]
NoResult == <<>>

\* thread t is in no direct call of the tracker. op: the member function; pc:
\* the position in it; p, rec: the address and the record an onAlloc passes;
\* buf: the buffer of snapshotLive's vector, out: its elements; prev: the
\* member of the ScopedHookGuard; todo: the arguments of make_summary_json not
\* yet evaluated, in the order of their evaluation, and b, pk, c: their values.
\* at and notedAt are history: the table and `noted` when the call acquired
\* the lock
NoRecord == [ptr |-> NULL, size |-> 0, type_name |-> NullStr, file |-> NullStr,
             line |-> 0, is_array |-> FALSE]
NoDirectCall == [op |-> "none", pc |-> "idle", p |-> NULL, rec |-> NoRecord,
                 buf |-> NULL, out |-> <<>>, prev |-> FALSE, todo |-> <<>>,
                 b |-> 0, pk |-> 0, c |-> 0, at |-> <<>>, notedAt |-> <<>>]

\* no register_callbacks call is in progress. c: the argument of the call;
\* old: the active set when the call was made and ret: the call returned in the
\* last step (history)
NoRegister == [pc |-> "idle", c |-> [s \in Slots |-> "empty"],
               old |-> [s \in Slots |-> "empty"], ret |-> FALSE]

\* the last step was not a get_callbacks() call
NotSeen == [s \in Slots |-> "none"]

Init ==
    /\ live = <<>>
    /\ total_allocs = 0
    /\ active_allocs = 0
    /\ active_bytes = 0
    /\ peak_bytes = 0
    /\ mu = 0
    /\ g_alloc_id = 0
    /\ g_cb = [s \in Slots |-> "empty"]
    /\ g_init_once = FALSE
    /\ heap = {}
    /\ held = {}
    /\ internal = {}
    /\ in_hook = [t \in Threads |-> FALSE]
    /\ g_callsite = [t \in Threads |-> EmptyCallsite]
    /\ stk = [t \in Threads |-> <<>>]
    /\ lastCall = NoCall
    /\ reg = NoRegister
    /\ seen = NotSeen
    /\ running_ = FALSE
    /\ sock_ = -1
    /\ wpc = "none"
    /\ spc = "idle"
    /\ backoff_ms = kBaseBackoffMs
    /\ rxBuffer = <<>>
    /\ next_metrics = 0
    /\ rxConn = <<>>
    /\ nLive = 0
    /\ sinceLoss = -1
    /\ fails = 0
    /\ host_ = "127.0.0.1"
    /\ port_ = 7777
    /\ loops = 0
    /\ sinceStop = -1
    /\ xpc = [t \in Threads |-> "idle"]
    /\ recs = [t \in Threads |-> 0]
    /\ out = [t \in Threads |-> <<>>]
    /\ exportedIds = {}
    /\ arg = NoArg
    /\ res = NoResult
    /\ call = [t \in Threads |-> NoDirectCall]
    /\ noted = <<>>
    /\ scopes = [t \in Threads |-> <<>>]
    /\ m_ = 0
    /\ worker_ = 0
    /\ alive = {}
    /\ launched = 0
    /\ app = [t \in Threads |-> NotCalling]
    /\ terminated = FALSE
    /\ ev = NoEvent

\* ------------------------------------------------------- MemoryTracker
\* unordered_map::emplace: inserts only when the key is absent
Emplace(m, k, v) ==
    IF k \in DOMAIN m THEN m
    ELSE [x \in DOMAIN m \cup {k} |-> IF x = k THEN v ELSE m[x]]

Erase(m, k) == [x \in DOMAIN m \ {k} |-> m[x]]

\* MemoryTracker::onAlloc with the peak update left out
MemoryTracker_onAlloc_NoPeak(p, sz, type, file, line, isArray) ==
    IF p = NULL \/ sz = 0
    THEN UNCHANGED trackerVars
    ELSE /\ live' = Emplace(live, p,
                       AllocationRecord(p, sz, type, file, line, isArray))
         /\ total_allocs' = total_allocs + 1
         /\ active_allocs' = active_allocs + 1
         /\ active_bytes' = active_bytes + sz
         /\ peak_bytes' = peak_bytes

\* MemoryTracker::onAlloc, the part under lock_guard (the caller holds mu).
\* total_bytes_ is written here and read nowhere in the program: it is left out.
MemoryTracker_onAlloc(p, sz, type, file, line, isArray) ==
    IF p = NULL \/ sz = 0
    THEN UNCHANGED trackerVars
    ELSE /\ live' = Emplace(live, p,
                       AllocationRecord(p, sz, type, file, line, isArray))
         /\ total_allocs' = total_allocs + 1
         /\ active_allocs' = active_allocs + 1
         /\ active_bytes' = active_bytes + sz
         /\ peak_bytes' = IF active_bytes + sz > peak_bytes
                          THEN active_bytes + sz ELSE peak_bytes

\* MemoryTracker::onFree that counts a free down without finding the record
MemoryTracker_onFree_Unchecked(p) ==
    IF p = NULL
    THEN UNCHANGED trackerVars
    ELSE /\ active_allocs' = IF active_allocs > 0
                             THEN active_allocs - 1 ELSE active_allocs
         /\ active_bytes' = IF p \in DOMAIN live /\ active_bytes >= live[p].size
                            THEN active_bytes - live[p].size ELSE active_bytes
         /\ live' = IF p \in DOMAIN live THEN Erase(live, p) ELSE live
         /\ UNCHANGED <<total_allocs, peak_bytes>>

\* MemoryTracker::onFree that lets the peak follow the active bytes down
MemoryTracker_onFree_PeakFollows(p) ==
    IF p = NULL \/ p \notin DOMAIN live
    THEN UNCHANGED trackerVars
    ELSE /\ active_bytes' = IF active_bytes >= live[p].size
                            THEN active_bytes - live[p].size ELSE active_bytes
         /\ active_allocs' = IF active_allocs > 0
                             THEN active_allocs - 1 ELSE active_allocs
         /\ live' = Erase(live, p)
         /\ peak_bytes' = active_bytes'
         /\ UNCHANGED total_allocs

\* MemoryTracker::onFree
MemoryTracker_onFree(p) ==
    IF p = NULL \/ p \notin DOMAIN live
    THEN UNCHANGED trackerVars
    ELSE /\ active_bytes' = IF active_bytes >= live[p].size
                            THEN active_bytes - live[p].size ELSE active_bytes
         /\ active_allocs' = IF active_allocs > 0
                             THEN active_allocs - 1 ELSE active_allocs
         /\ live' = Erase(live, p)
         /\ UNCHANGED <<total_allocs, peak_bytes>>

\* the getters
activeBytes  == active_bytes
peakBytes    == peak_bytes
totalAllocs  == total_allocs
activeAllocs == active_allocs

\* --------------------------------------------- direct calls (SpecTracker)
hookVars == <<mu, g_alloc_id, g_cb, g_init_once, heap, held, internal, in_hook,
              g_callsite, stk>>

\* the arguments a harness passes for type, file and line
HarnessArgs == {EmptyCallsite, [file |-> "a.cpp", line |-> 7, type_name |-> "T"]}

\* had: the address had a record when the call was made
Returned(t, kind, p, sz, args, arr) ==
    lastCall' = [kind |-> kind, t |-> t, p |-> p, sz |-> sz, args |-> args,
                 arr |-> arr, had |-> (p \in DOMAIN live), guarded |-> FALSE,
                 ncb |-> 0, nfree |-> 0]

\* a thread calls MemoryTracker::instance().onAlloc(...)
CallOnAlloc(t) ==
    \E p \in Addrs \cup {NULL}, sz \in Sizes, a \in HarnessArgs, isArray \in BOOLEAN :
        /\ total_allocs < MaxAllocs
        /\ mu = 0
        /\ MemoryTracker_onAlloc(p, sz, a.type_name, a.file, a.line, isArray)
        /\ Returned(t, "onAlloc", p, sz, a, isArray)
        /\ UNCHANGED hookVars
        /\ UNCHANGED restVars

\* a thread calls MemoryTracker::instance().onFree(p, isArray)
CallOnFree(t) ==
    \E p \in Addrs \cup {NULL} :
        /\ mu = 0
        /\ MemoryTracker_onFree(p)
        /\ Returned(t, "onFree", p, 0, EmptyCallsite, FALSE)
        /\ UNCHANGED hookVars
        /\ UNCHANGED restVars

\* MemoryTracker::snapshotLive: a copy of every record of the table
snapshotLive == {live[p] : p \in DOMAIN live}

\* the blocks cb.liveBlocks() returns with the tracker installed, one per record
\* of snapshotLive(); make_live_allocs_json writes one object per block
liveBlocks == snapshotLive

\* a thread builds the LIVE_ALLOCS message: live_allocs_message_json() with the
\* tracker's callbacks; sz: the number of blocks in the payload
CallLiveAllocsMessage(t) ==
    /\ mu = 0
    /\ lastCall' = [NoCall EXCEPT !.kind = "live_allocs", !.t = t,
                                  !.sz = Cardinality(liveBlocks)]
    /\ UNCHANGED <<trackerVars, hookVars, restVars>>

\* the harness is one thread; the calls of several threads are serialised by
\* mu_ and differ from these only in the thread_id they record
Harness == CHOOSE t \in Threads : \A u \in Threads : t <= u

NextTracker ==
    \/ CallOnAlloc(Harness)
    \/ CallOnFree(Harness)
    \/ CallLiveAllocsMessage(Harness)

SpecTracker == Init /\ [][NextTracker]_vars

\* ------------------------------------------------------ callback registry
\* init_noop
init_noop == [s \in Slots |-> "noop"]

\* std::call_once(g_init_once, init_noop): g_cb afterwards
call_once_init == IF g_init_once THEN g_cb ELSE init_noop

\* an assignment that keeps the old slot where the new set has none
AssignCallbacks_Merge(old, c) ==
    [s \in Slots |-> IF c[s] = "empty" THEN old[s] ELSE c[s]]

\* `g_cb = c`
AssignCallbacks(old, c) == c

\* the seven `if (!g_cb.x) g_cb.x = <no-op>` of register_callbacks
FillDefaults(cb) == [s \in Slots |-> IF cb[s] = "empty" THEN "noop" ELSE cb[s]]

\* register_callbacks(c) run without interruption: g_cb afterwards
register_callbacks(c) == FillDefaults(AssignCallbacks(call_once_init, c))

\* install_callbacks_with_memorytracker, called at startup while no thread is
\* inside a hook call or a guarded region
install_callbacks_with_memorytracker ==
    /\ \A t \in Threads : stk[t] = <<>>
    /\ g_cb # [s \in Slots |-> "mt"]
    /\ g_init_once' = TRUE
    /\ g_cb' = register_callbacks([s \in Slots |-> "mt"])
    /\ lastCall' = NoCall
    /\ UNCHANGED restVars
    /\ UNCHANGED <<trackerVars, mu, g_alloc_id, heap, held, internal, in_hook,
                   g_callsite, stk>>

\* ------------------------------------------------------------ hook layer
\* the innermost frame of thread t, NoFrame in application code
NoFrame == [kind |-> "none", pc |-> "none", p |-> NULL, sz |-> 0, arr |-> FALSE,
            cs |-> EmptyCallsite, prev |-> FALSE, pre |-> FALSE, cb |-> "none",
            led |-> NoLedger, own |-> {}]
Top(t) == IF stk[t] = <<>> THEN NoFrame ELSE stk[t][Len(stk[t])]
Pop(t) == SubSeq(stk[t], 1, Len(stk[t]) - 1)
SetTop(t, f) == [stk EXCEPT ![t] = Append(Pop(t), f)]
Push(t, f) == [stk EXCEPT ![t] = Append(stk[t], f)]

\* a callback of the hook call on top of thread t's stack is running
InCallback(t) ==
    /\ stk[t] # <<>>
    /\ Top(t).kind \in HookKinds
    /\ Top(t).pc \in {"in_cb", "locked"}

\* thread t is running code that can open a region or call new / delete:
\* application code, code in a guarded region, code of a query or of a frame
\* being built, or code of a running callback
CanCall(t) ==
    \/ stk[t] = <<>>
    \/ Top(t).kind \in GuardKinds
    \/ Top(t).kind \in SpanKinds
    \/ InCallback(t)

\* application code (not the tracking path) is running on thread t
AppCode(t) == stk[t] = <<>> \/ Top(t).kind \in GuardKinds

\* the code running on thread t owns the blocks it allocated: the application
\* its own, the tracking path (a running callback) its own, a query or a frame
\* being built the ones allocated since it began
Owned(t) ==
    IF InCallback(t) THEN internal
    ELSE IF Top(t).kind \in SpanKinds THEN held \ Top(t).own
    ELSE held
Keep(t, p) ==
    IF InCallback(t)
    THEN internal' = internal \cup {p} /\ held' = held
    ELSE held' = held \cup {p} /\ internal' = internal
Drop(t, p) ==
    IF InCallback(t)
    THEN internal' = internal \ {p} /\ held' = held
    ELSE held' = held \ {p} /\ internal' = internal

\* hook calls in flight that will reach MemoryTracker::onAlloc
InFlightNew ==
    Cardinality({<<t, i>> \in Threads \X (1..MaxDepth) :
                    i <= Len(stk[t]) /\ stk[t][i].kind = "new"})

\* guarded: in_hook at entry; ncb: callbacks the call invoked; nfree: calls of
\* std::free it made
HookReturned(t, kind, p, guarded, ncb, nfree) ==
    lastCall' = [kind |-> kind, t |-> t, p |-> p, sz |-> 0, args |-> EmptyCallsite,
                 arr |-> FALSE, had |-> FALSE, guarded |-> guarded, ncb |-> ncb,
                 nfree |-> nfree]

\* an entry point that never takes the raw-only path
HookGuarded_Never(t) == FALSE

\* the test `if (!mp::in_hook)` of the four entry points fails
HookGuarded(t) == in_hook[t]

\* an entry point that returns without std::free when it skips the notification
GuardedFree_Skipped(p) == heap

\* std::free(p) on the path that skipped the notification
GuardedFree(p) == heap \ {p}

\* an entry point that clears the callsite context before it throws
ThrowBadAlloc_Cleared(t) == [g_callsite EXCEPT ![t] = EmptyCallsite]

\* `if (!p) throw std::bad_alloc{}`: g_callsite when the exception leaves
ThrowBadAlloc(t) == g_callsite

\* history of an unguarded allocation: malloc gave thread t the address that
\* another thread's delete returned to the allocator in the step before
Reused(t, p) ==
    IF lastCall.kind = "delete" /\ lastCall.t # t /\ lastCall.p = p
    THEN [NoCall EXCEPT !.kind = "reuse", !.t = t, !.p = p]
    ELSE NoCall

\* operator new / operator new[] up to the call of cb.onAlloc:
\* sz == 0 becomes 1, malloc, then the in_hook test
HookNew(t, sz0, isArray) ==
    LET sz == IF sz0 = 0 THEN 1 ELSE sz0 IN
    /\ CanCall(t)
    /\ UNCHANGED restVars
    /\ \/ \* malloc returns nullptr: throw std::bad_alloc
          /\ HookReturned(t, "bad_alloc", NULL, in_hook[t], 0, 0)
          /\ g_callsite' = ThrowBadAlloc(t)
          /\ UNCHANGED <<trackerVars, mu, g_alloc_id, g_cb, g_init_once, heap,
                         held, internal, in_hook, stk>>
       \/ \E p \in Addrs \ heap :
            /\ heap' = heap \cup {p}
            /\ IF HookGuarded(t)
               THEN \* the raw allocation only
                    /\ Keep(t, p)
                    /\ HookReturned(t, "new", p, in_hook[t], 0, 0)
                    /\ UNCHANGED <<trackerVars, mu, g_alloc_id, g_cb,
                                   g_init_once, in_hook, g_callsite, stk>>
               ELSE /\ Len(stk[t]) < MaxDepth
                    /\ total_allocs + InFlightNew < MaxTracked
                    /\ in_hook' = [in_hook EXCEPT ![t] = TRUE]
                    /\ g_cb' = call_once_init
                    /\ g_init_once' = TRUE
                    /\ stk' = Push(t, Frame("new", "in_cb", p, sz, isArray,
                                            g_callsite[t], in_hook[t],
                                            call_once_init["onAlloc"]))
                    /\ lastCall' = Reused(t, p)
                    /\ UNCHANGED <<trackerVars, mu, g_alloc_id, held, internal,
                                   g_callsite>>

\* void* operator new(std::size_t)
OperatorNew(t) == \E sz \in ReqSizes : HookNew(t, sz, FALSE)

\* void* operator new[](std::size_t)
OperatorNewArray(t) == \E sz \in ReqSizes : HookNew(t, sz, TRUE)

\* an entry point that gives the block back before it notifies
NotifyThenFree_Swapped(p) == heap \ {p}

\* the heap while cb.onFree(p) runs: std::free(p) comes after the notification
NotifyThenFree(p) == heap

\* operator delete / operator delete[] up to the call of cb.onFree
HookDelete(t, p, isArray) ==
    /\ CanCall(t)
    /\ UNCHANGED restVars
    /\ IF p = NULL
       THEN /\ HookReturned(t, "delete_null", NULL, in_hook[t], 0, 0)
            /\ UNCHANGED <<trackerVars, mu, g_alloc_id, g_cb, g_init_once, heap,
                           held, internal, in_hook, g_callsite, stk>>
       ELSE /\ Drop(t, p)
            /\ IF HookGuarded(t)
               THEN \* std::free(p) only
                    /\ heap' = GuardedFree(p)
                    /\ HookReturned(t, "delete", p, in_hook[t], 0, 1)
                    /\ UNCHANGED <<trackerVars, mu, g_alloc_id, g_cb,
                                   g_init_once, in_hook, g_callsite, stk>>
               ELSE /\ Len(stk[t]) < MaxDepth
                    /\ in_hook' = [in_hook EXCEPT ![t] = TRUE]
                    /\ g_cb' = call_once_init
                    /\ g_init_once' = TRUE
                    /\ stk' = Push(t, Frame("delete", "in_cb", p, 0, isArray,
                                            EmptyCallsite, in_hook[t],
                                            call_once_init["onFree"]))
                    /\ heap' = NotifyThenFree(p)
                    /\ lastCall' = NoCall
                    /\ UNCHANGED <<trackerVars, mu, g_alloc_id, g_callsite>>

\* void operator delete(void*), of a block the program holds or of nullptr
OperatorDelete(t) == \E p \in Owned(t) \cup {NULL} : HookDelete(t, p, FALSE)

\* void operator delete[](void*)
OperatorDeleteArray(t) == \E p \in Owned(t) \cup {NULL} : HookDelete(t, p, TRUE)

\* std::lock_guard<std::mutex> lock(mu_) in MemoryTracker::onAlloc / onFree
TrackerLock(t) ==
    /\ UNCHANGED restVars
    /\ stk[t] # <<>>
    /\ Top(t).kind \in HookKinds /\ Top(t).pc = "in_cb" /\ Top(t).cb = "mt"
    /\ mu = 0
    /\ mu' = t
    /\ stk' = SetTop(t, [Top(t) EXCEPT !.pc = "locked"])
    /\ lastCall' = NoCall
    /\ UNCHANGED <<trackerVars, g_alloc_id, g_cb, g_init_once, heap, held, internal,
                   in_hook, g_callsite>>

\* the body of MemoryTracker::onAlloc / onFree under the lock, and the unlock
TrackerUpdate(t) ==
    /\ UNCHANGED restVars
    /\ stk[t] # <<>>
    /\ Top(t).kind \in HookKinds /\ Top(t).pc = "locked"
    /\ mu = t
    /\ IF Top(t).kind = "new"
       THEN MemoryTracker_onAlloc(Top(t).p, Top(t).sz, Top(t).cs.type_name,
                                  Top(t).cs.file, Top(t).cs.line, Top(t).arr)
       ELSE MemoryTracker_onFree(Top(t).p)
    /\ mu' = 0
    /\ stk' = SetTop(t, [Top(t) EXCEPT !.pc = "unlocked"])
    /\ lastCall' = NoCall
    /\ UNCHANGED <<g_alloc_id, g_cb, g_init_once, heap, held, internal, in_hook,
                   g_callsite>>

\* the callback has finished: a no-op, or the tracker's lambda after the
\* tracker call
CallbackDone(t) ==
    /\ stk[t] # <<>>
    /\ Top(t).kind \in HookKinds
    /\ \/ Top(t).pc = "in_cb" /\ Top(t).cb = "noop"
       \/ Top(t).pc = "unlocked"

\* an entry point that leaves the callsite context as it found it
clearCallsite_Kept(cs) == cs

\* mp::clearCallsite(): g_callsite = {}
clearCallsite(cs) == EmptyCallsite

\* operator new after cb.onAlloc: the lambda's fetch_add and clearCallsite,
\* then clearCallsite, in_hook = false, return p
NewReturn(t) ==
    /\ UNCHANGED restVars
    /\ CallbackDone(t)
    /\ Top(t).kind = "new"
    /\ g_alloc_id' = IF Top(t).cb = "mt" THEN g_alloc_id + 1 ELSE g_alloc_id
    /\ g_callsite' = [g_callsite EXCEPT ![t] = clearCallsite(g_callsite[t])]
    /\ in_hook' = [in_hook EXCEPT ![t] = FALSE]
    /\ stk' = [stk EXCEPT ![t] = Pop(t)]
    /\ IF Len(stk[t]) > 1 /\ stk[t][Len(stk[t]) - 1].kind \in HookKinds
       THEN internal' = internal \cup {Top(t).p} /\ held' = held
       ELSE held' = held \cup {Top(t).p} /\ internal' = internal
    /\ HookReturned(t, "new", Top(t).p, Top(t).pre, 1, 0)
    /\ UNCHANGED <<trackerVars, mu, g_cb, g_init_once, heap>>

\* operator delete after cb.onFree: in_hook = false
DeleteAfterCallback(t) ==
    /\ UNCHANGED restVars
    /\ CallbackDone(t)
    /\ Top(t).kind = "delete"
    /\ in_hook' = [in_hook EXCEPT ![t] = FALSE]
    /\ stk' = SetTop(t, [Top(t) EXCEPT !.pc = "free"])
    /\ lastCall' = NoCall
    /\ UNCHANGED <<trackerVars, mu, g_alloc_id, g_cb, g_init_once, heap, held, internal,
                   g_callsite>>

\* operator delete: std::free(p), return
DeleteFree(t) ==
    /\ UNCHANGED restVars
    /\ stk[t] # <<>>
    /\ Top(t).kind = "delete" /\ Top(t).pc = "free"
    /\ heap' = heap \ {Top(t).p}
    /\ stk' = [stk EXCEPT ![t] = Pop(t)]
    /\ HookReturned(t, "delete", Top(t).p, Top(t).pre, 1, 1)
    /\ UNCHANGED <<trackerVars, mu, g_alloc_id, g_cb, g_init_once, held, internal,
                   in_hook, g_callsite>>

\* ------------------------------------------------------- guarded regions
\* a destructor that resets the flag instead of restoring it
GuardRestore_Reset(f) == FALSE

\* the value a guard's destructor writes to in_hook
GuardRestore(f) == f.prev

\* ScopedHookGuard() / AntiReentry(): prev(in_hook), in_hook = true
GuardEnter(t) ==
    /\ UNCHANGED restVars
    /\ AppCode(t)
    /\ Len(stk[t]) < MaxDepth
    /\ stk' = Push(t, Frame("guard", "region", NULL, 0, FALSE, EmptyCallsite,
                            in_hook[t], "none"))
    /\ in_hook' = [in_hook EXCEPT ![t] = TRUE]
    /\ lastCall' = NoCall
    /\ UNCHANGED <<trackerVars, mu, g_alloc_id, g_cb, g_init_once, heap, held, internal,
                   g_callsite>>

\* ~ScopedHookGuard() / ~AntiReentry(): in_hook = prev
GuardExit(t) ==
    /\ UNCHANGED restVars
    /\ Top(t).kind = "guard"
    /\ in_hook' = [in_hook EXCEPT ![t] = GuardRestore(Top(t))]
    /\ stk' = [stk EXCEPT ![t] = Pop(t)]
    /\ lastCall' = NoCall
    /\ UNCHANGED <<trackerVars, mu, g_alloc_id, g_cb, g_init_once, heap, held, internal,
                   g_callsite>>

ScopedHookGuard_ctor(t) == GuardEnter(t)
ScopedHookGuard_dtor(t) == GuardExit(t)
AntiReentry_ctor(t)     == GuardEnter(t)
AntiReentry_dtor(t)     == GuardExit(t)

\* ------------------------------------------------------ callsite context
\* mp::setCallsite(file, line)
setCallsite(t) ==
    \E file \in Files, line \in LineNos :
        /\ UNCHANGED restVars
        /\ AppCode(t)
        /\ g_callsite' = [g_callsite EXCEPT ![t].file = file, ![t].line = line]
        /\ lastCall' = NoCall
        /\ UNCHANGED <<trackerVars, mu, g_alloc_id, g_cb, g_init_once, heap,
                       held, internal, in_hook, stk>>

\* mp::setTypeName(tn)
setTypeName(t) ==
    \E tn \in TypeNames :
        /\ UNCHANGED restVars
        /\ AppCode(t)
        /\ g_callsite' = [g_callsite EXCEPT ![t].type_name = tn]
        /\ lastCall' = NoCall
        /\ UNCHANGED <<trackerVars, mu, g_alloc_id, g_cb, g_init_once, heap,
                       held, internal, in_hook, stk>>

\* a step of the hook layer on thread t
HookStep(t) ==
    \/ OperatorNew(t)
    \/ OperatorNewArray(t)
    \/ OperatorDelete(t)
    \/ OperatorDeleteArray(t)
    \/ TrackerLock(t)
    \/ TrackerUpdate(t)
    \/ NewReturn(t)
    \/ DeleteAfterCallback(t)
    \/ DeleteFree(t)

\* a step of application code on thread t outside the hook layer
RegionStep(t) ==
    \/ ScopedHookGuard_ctor(t)
    \/ ScopedHookGuard_dtor(t)
    \/ AntiReentry_ctor(t)
    \/ AntiReentry_dtor(t)
    \/ setCallsite(t)
    \/ setTypeName(t)

\* one thread: regions, callsite context and hook calls in any nesting
Main == Harness

Next ==
    \/ install_callbacks_with_memorytracker
    \/ HookStep(Main)
    \/ RegionStep(Main)

Spec == Init /\ [][Next]_vars

\* several threads allocate and free concurrently, none in a guarded region
NextThreads ==
    \/ install_callbacks_with_memorytracker
    \/ \E t \in Threads : HookStep(t)

SpecThreads == Init /\ [][NextThreads]_vars

\* ------------------------------------------------------- ScopedCallsite
\* the file, line and type the MP_NEW_FT / MP_NEW_ARRAY_FT expressions of a
\* program pass to ScopedCallsite
ScopeSites == {[file |-> "a.cpp", line |-> 7, type_name |-> "T"],
               [file |-> "b.cpp", line |-> 9, type_name |-> "U"]}

\* what a scope leaves alone
scopeRest == <<trackerVars, mu, g_alloc_id, g_cb, g_init_once, heap, held,
               internal, in_hook, stk, reg, seen, clientVars, exportVars,
               serVars, callVars, raceVars>>

\* a destructor that leaves the context as the scope's body left it
ScopedCallsite_Forget(sc, cs) == cs

\* ~ScopedCallsite(): g_callsite = prev_
ScopedCallsite_Restore(sc, cs) == sc.prev

\* ScopedCallsite(file, line, type): prev_ = g_callsite, then the three fields
\* are set. at is history: the context when the scope was entered
ScopedCallsite_ctor(t) ==
    \E site \in ScopeSites :
        /\ AppCode(t)
        /\ Len(scopes[t]) < MaxScopes
        /\ scopes' = [scopes EXCEPT ![t] =
                        Append(@, [prev |-> g_callsite[t], at |-> g_callsite[t],
                                   site |-> site])]
        /\ g_callsite' = [g_callsite EXCEPT ![t] = site]
        /\ lastCall' = [NoCall EXCEPT !.kind = "scope_enter", !.t = t,
                                      !.args = site]
        /\ UNCHANGED scopeRest

\* ~ScopedCallsite() of the innermost scope; lastCall.had: the context was no
\* longer the scope's site when the scope ended
ScopedCallsite_dtor(t) ==
    /\ AppCode(t)
    /\ scopes[t] # <<>>
    /\ LET sc == scopes[t][Len(scopes[t])] IN
         /\ g_callsite' = [g_callsite EXCEPT
                             ![t] = ScopedCallsite_Restore(sc, @)]
         /\ lastCall' = [NoCall EXCEPT !.kind = "scope_exit", !.t = t,
                                       !.args = sc.at,
                                       !.had = (g_callsite[t] # sc.site)]
    /\ scopes' = [scopes EXCEPT ![t] = SubSeq(@, 1, Len(@) - 1)]
    /\ UNCHANGED scopeRest

\* one thread: annotated and plain allocations, guarded regions and nested
\* scopes
NextScopes ==
    \/ install_callbacks_with_memorytracker
    \/ HookStep(Main)
    \/ ScopedHookGuard_ctor(Main)
    \/ ScopedHookGuard_dtor(Main)
    \/ ScopedCallsite_ctor(Main)
    \/ ScopedCallsite_dtor(Main)

SpecScopes == Init /\ [][NextScopes]_vars

\* ------------------------------------------- a failing on-allocate callback
\* live_.emplace(p, rec) throws std::bad_alloc: the operator new it called for
\* its node found no memory. The table and the metrics are as before,
\* ~lock_guard unlocks mu_, and the exception leaves MemoryTracker::onAlloc, the
\* lambda and operator new, none of which has a handler: fetch_add,
\* clearCallsite and `in_hook = false` are not reached and the block from
\* malloc is neither freed nor returned
TrackerThrow(t) ==
    /\ UNCHANGED restVars
    /\ stk[t] # <<>>
    /\ Top(t).kind = "new" /\ Top(t).pc = "locked"
    /\ mu = t
    /\ lastCall.kind = "bad_alloc" /\ lastCall.t = t /\ lastCall.guarded
    /\ mu' = 0
    /\ stk' = [stk EXCEPT ![t] = Pop(t)]
    /\ lastCall' = [NoCall EXCEPT !.kind = "cb_error", !.t = t, !.p = Top(t).p,
                                  !.guarded = Top(t).pre, !.ncb = 1]
    /\ UNCHANGED <<trackerVars, g_alloc_id, g_cb, g_init_once, heap, held,
                   internal, in_hook, g_callsite>>

\* one thread allocates and frees; the allocator may have no memory for the
\* table's nodes
NextFailure ==
    \/ install_callbacks_with_memorytracker
    \/ HookStep(Main)
    \/ TrackerThrow(Main)

SpecFailure == Init /\ [][NextFailure]_vars

\* ------------------------------------------- queries and telemetry frames
\* the ledger: the table and the four metrics
Ledger == [live |-> live, total_allocs |-> total_allocs,
           active_allocs |-> active_allocs, active_bytes |-> active_bytes,
           peak_bytes |-> peak_bytes]

\* an AntiReentry guard that leaves the flag as it is
AntiReentry_Unset(f) == f

\* AntiReentry(): in_hook = true
AntiReentry(f) == TRUE

\* thread t, with no region open, begins a span: a query call, or a frame
\* under `AntiReentry guard;`
SpanEnter(t, kind) ==
    /\ UNCHANGED restVars
    /\ stk[t] = <<>>
    /\ stk' = Push(t, [Frame(kind, "region", NULL, 0, FALSE, EmptyCallsite,
                             in_hook[t], "none")
                          EXCEPT !.led = Ledger, !.own = held])
    /\ in_hook' = [in_hook EXCEPT
                     ![t] = IF kind = "frame" THEN AntiReentry(@) ELSE @]
    /\ lastCall' = NoCall
    /\ UNCHANGED <<trackerVars, mu, g_alloc_id, g_cb, g_init_once, heap, held,
                   internal, g_callsite>>

\* summary_json(), live_allocs_csv(), summary_message_json() or
\* live_allocs_message_json() called by application code
QueryCall(t) == SpanEnter(t, "query")

\* runLoop's SNAPSHOT reply or periodic push: AntiReentry guard; then
\* getSnapshotJson() / getMetricsJson()
FrameBuild(t) == SpanEnter(t, "frame")

\* cb.liveBlocks() with the tracker installed, called once by the live_allocs
\* variants: under its own ScopedHookGuard it takes snapshotLive() (which locks
\* mu_ and copies the table), gives every record the next g_alloc_id and
\* returns the blocks in a vector the caller releases; the frame's sz: the
\* number of blocks
SpanLiveBlocks(t) ==
    LET n == Cardinality(liveBlocks) IN
    /\ UNCHANGED restVars
    /\ Top(t).kind \in SpanKinds /\ Top(t).pc = "region"
    /\ g_cb["liveBlocks"] = "mt"
    /\ mu = 0
    /\ n > 0
    /\ g_alloc_id + n <= MaxExportId
    /\ g_alloc_id' = g_alloc_id + n
    /\ \E p \in Addrs \ heap :
         /\ heap' = heap \cup {p}
         /\ held' = held \cup {p}
         /\ lastCall' = [NoCall EXCEPT !.kind = "liveBlocks", !.t = t, !.p = p,
                                       !.sz = n, !.guarded = TRUE]
    /\ stk' = SetTop(t, [Top(t) EXCEPT !.pc = "listed", !.sz = n])
    /\ UNCHANGED <<trackerVars, mu, g_cb, g_init_once, internal, in_hook,
                   g_callsite>>

\* the span ends when what it allocated has been released, the result string
\* or the frame's buffer last: the query's caller goes on, or ~AntiReentry()
\* writes in_hook = prev
SpanExit(t) ==
    /\ UNCHANGED restVars
    /\ Top(t).kind \in SpanKinds
    /\ lastCall.kind = "delete" /\ lastCall.p # NULL
    /\ held = Top(t).own
    /\ in_hook' = [in_hook EXCEPT
                     ![t] = IF Top(t).kind = "frame" THEN GuardRestore(Top(t))
                            ELSE @]
    /\ stk' = [stk EXCEPT ![t] = Pop(t)]
    /\ lastCall' = [NoCall EXCEPT !.kind = Top(t).kind, !.t = t,
                                  !.p = lastCall.p, !.sz = Top(t).sz,
                                  !.guarded = in_hook[t]]
    /\ UNCHANGED <<trackerVars, mu, g_alloc_id, g_cb, g_init_once, heap, held,
                   internal, g_callsite>>

\* one thread allocates and frees, calls the query API and builds telemetry
\* frames
NextQuery ==
    \/ install_callbacks_with_memorytracker
    \/ HookStep(Main)
    \/ QueryCall(Main)
    \/ FrameBuild(Main)
    \/ SpanLiveBlocks(Main)
    \/ SpanExit(Main)

SpecQuery == Init /\ [][NextQuery]_vars

\* --------------------------------------------------- export of live blocks
\* a counter whose fetch_add leaves it as it was
FetchAdd_Stuck(id) == id

\* g_alloc_id after g_alloc_id.fetch_add(1), which returns the value before
FetchAdd(id) == id + 1

\* the ledger and the hook layer but for the counter of ids
exportRest == <<mu, g_cb, g_init_once, heap, held, internal, in_hook, g_callsite,
                stk, lastCall, reg, seen, clientVars, serVars, sideVars>>

\* the tracker's cb.onAlloc(p, sz, ...) called by a hook:
\* MemoryTracker::onAlloc, then g_alloc_id.fetch_add(1)
cb_onAlloc(sz) ==
    \E p \in Addrs :
        /\ g_cb["onAlloc"] = "mt"
        /\ mu = 0
        /\ total_allocs < MaxAllocs
        /\ g_alloc_id < MaxExportId
        /\ MemoryTracker_onAlloc(p, sz, NullStr, NullStr, 0, FALSE)
        /\ g_alloc_id' = FetchAdd(g_alloc_id)
        /\ UNCHANGED <<exportRest, exportVars>>

\* the tracker's cb.onFree(p) called by a hook
cb_onFree ==
    \E p \in DOMAIN live :
        /\ g_cb["onFree"] = "mt"
        /\ mu = 0
        /\ MemoryTracker_onFree(p)
        /\ UNCHANGED <<g_alloc_id, exportRest, exportVars>>

\* cb.liveBlocks() on thread t up to its loop: recs = snapshotLive()
ExportBegin(t) ==
    /\ xpc[t] = "idle"
    /\ g_cb["liveBlocks"] = "mt"
    /\ mu = 0
    /\ xpc' = [xpc EXCEPT ![t] = "loop"]
    /\ recs' = [recs EXCEPT ![t] = Cardinality(snapshotLive)]
    /\ out' = [out EXCEPT ![t] = <<>>]
    /\ UNCHANGED <<trackerVars, g_alloc_id, exportRest, exportedIds>>

\* one turn of the loop: b.alloc_id = g_alloc_id.fetch_add(1); out.push_back(b)
ExportOne(t) ==
    /\ xpc[t] = "loop"
    /\ recs[t] > 0
    /\ g_alloc_id < MaxExportId
    /\ out' = [out EXCEPT ![t] = Append(@, g_alloc_id)]
    /\ g_alloc_id' = FetchAdd(g_alloc_id)
    /\ exportedIds' = exportedIds \cup {g_alloc_id}
    /\ recs' = [recs EXCEPT ![t] = @ - 1]
    /\ UNCHANGED <<trackerVars, exportRest, xpc>>

\* return out
ExportReturn(t) ==
    /\ xpc[t] = "loop"
    /\ recs[t] = 0
    /\ xpc' = [xpc EXCEPT ![t] = "idle"]
    /\ UNCHANGED <<trackerVars, g_alloc_id, exportRest, recs, out, exportedIds>>

\* threads export the live blocks while hooks report allocations and frees
NextExport ==
    \/ install_callbacks_with_memorytracker
    \/ cb_onAlloc(1)
    \/ cb_onFree
    \/ \E t \in Threads : ExportBegin(t)
    \/ \E t \in Threads : ExportOne(t)
    \/ \E t \in Threads : ExportReturn(t)

SpecExport == Init /\ [][NextExport]_vars

\* ------------------------------------------- the registry used directly
ledgerVars == <<live, total_allocs, active_allocs, active_bytes, peak_bytes, mu,
                g_alloc_id, heap, held, internal, in_hook, g_callsite, stk,
                lastCall>>

\* the sets an application passes to register_callbacks: any slot may be left
\* unset; "user" is a callable of the application, "mt" one of the tracker's
CallbackSets ==
    [Slots -> {"empty", "user"}] \cup {[s \in Slots |-> "mt"]}

\* register_callbacks(c) up to and including `g_cb = c`
RegisterAssign(t) ==
    \E c \in CallbackSets :
        /\ reg.pc = "idle"
        /\ g_init_once' = TRUE
        /\ g_cb' = AssignCallbacks(call_once_init, c)
        /\ reg' = [pc |-> "fill", c |-> c, old |-> call_once_init, ret |-> FALSE]
        /\ seen' = NotSeen
        /\ UNCHANGED <<ledgerVars, clientVars, exportVars, serVars, sideVars>>

\* register_callbacks(c): the seven tests that fill the unset slots, return
RegisterFill(t) ==
    /\ reg.pc = "fill"
    /\ g_cb' = FillDefaults(g_cb)
    /\ reg' = [reg EXCEPT !.pc = "idle", !.ret = TRUE]
    /\ seen' = NotSeen
    /\ UNCHANGED <<ledgerVars, g_init_once, clientVars, exportVars, serVars,
                   sideVars>>

\* get_callbacks() on thread t, which then looks at the slots of the set
GetCallbacks(t) ==
    /\ t # Main \/ reg.pc = "idle"
    /\ g_init_once' = TRUE
    /\ g_cb' = call_once_init
    /\ seen' = call_once_init
    /\ reg' = [reg EXCEPT !.ret = FALSE]
    /\ UNCHANGED <<ledgerVars, clientVars, exportVars, serVars, sideVars>>

\* one thread registers callback sets while any thread reads the active set
NextRegistry ==
    \/ RegisterAssign(Main)
    \/ RegisterFill(Main)
    \/ \E t \in Threads : GetCallbacks(t)

SpecRegistry == Init /\ [][NextRegistry]_vars

\* ------------------------------------------------------ telemetry client
\* bytes are one-character strings, a byte string is a sequence of them
LF == "\n"
Snapshot == <<"S", "N", "A", "P", "S", "H", "O", "T">>

\* what one recv() can deliver: the command, the command split over two reads,
\* with blanks and CR around it, in lower case, and twice in one read
Chunks ==
    { Snapshot \o <<LF>>,
      <<"S", "N", "A", "P">>,
      <<"S", "H", "O", "T", LF>>,
      <<" ">> \o Snapshot \o <<"\r", LF>>,
      <<"s", "n", "a", "p", "s", "h", "o", "t", LF>>,
      Snapshot \o <<LF>> \o Snapshot \o <<LF>> }

Min(a, b) == IF a <= b THEN a ELSE b

\* std::string::find(c): the 1-based position of the first c, 0 for npos
Find(str, c) ==
    IF \E i \in 1..Len(str) : str[i] = c
    THEN CHOOSE i \in 1..Len(str) : str[i] = c /\ \A j \in 1..(i-1) : str[j] # c
    ELSE 0

\* the characters trimCopy skips
TrimChars == {" ", "\t", "\r", LF}

\* the two loops of trimCopy: i and j are the code's 0-based i and j
RECURSIVE TrimLeft(_, _, _)
TrimLeft(str, i, j) ==
    IF i < j /\ str[i+1] \in TrimChars THEN TrimLeft(str, i+1, j) ELSE i
RECURSIVE TrimRight(_, _, _)
TrimRight(str, i, j) ==
    IF j > i /\ str[j] \in TrimChars THEN TrimRight(str, i, j-1) ELSE j

\* trimCopy(s): s.substr(i, j - i)
trimCopy(str) ==
    LET i == TrimLeft(str, 0, Len(str))
        j == TrimRight(str, i, Len(str))
    IN  SubSeq(str, i+1, j)

\* the `for (;;)` of runLoop over rxBuffer. okLeft: the sends that will succeed
\* before one fails; n: replies sent so far. failed: a send failed and the loop
\* was left by `closeSocket(); break;`
RECURSIVE ProcessLines(_, _, _)
ProcessLines(buf, okLeft, n) ==
    LET pos == Find(buf, LF) IN
    IF pos = 0
    THEN [buf |-> buf, replies |-> n, failed |-> FALSE]
    ELSE LET line == trimCopy(SubSeq(buf, 1, pos-1))
             rest == SubSeq(buf, pos+1, Len(buf))
         IN  IF line = Snapshot
             THEN IF okLeft > 0
                  THEN ProcessLines(rest, okLeft-1, n+1)
                  ELSE [buf |-> rest, replies |-> n, failed |-> TRUE]
             ELSE ProcessLines(rest, okLeft, n)

\* a closeSocket() that leaves the descriptor open
closeSocket_Leak(fd) == fd

\* closeSocket(): sock_ afterwards
closeSocket(fd) == -1

\* a backoff that doubles without a cap
NextBackoff_Uncapped(b) == b * 2

\* backoff_ms = std::min(backoff_ms * 2, 3000)
NextBackoff(b) == Min(b * 2, kMaxBackoffMs)

\* a push that waits for an iteration without inbound data
PushDue_WhenQuiet(remaining, gotData) == remaining = 0 /\ ~gotData

\* `now >= next_metrics` at the periodic push; remaining: ms up to next_metrics
PushDue(remaining, gotData) == remaining = 0

\* ms pass: the time since the loss, counted up to the base backoff
Elapse(dt) ==
    sinceLoss' = IF sinceLoss = -1 THEN -1 ELSE Min(sinceLoss + dt, kBaseBackoffMs)

\* sinceStop after dt more ms (it stops counting at kMaxBackoffMs)
StopAge(dt) == IF sinceStop = -1 THEN -1 ELSE Min(sinceStop + dt, kMaxBackoffMs)

\* everything but the client
nonClientVars == <<ledgerVars, g_cb, g_init_once, reg, seen, exportVars,
                   serVars, sideVars>>

\* the (host, port) pairs the application passes to start()
Targets == {<<"127.0.0.1", 7777>>, <<"collector", 9000>>}

\* start(): `if (running_) return;`
AlreadyRunning_Never == FALSE

AlreadyRunning == running_

\* SocketClient::start(host, port), which launches runLoop on a new thread;
\* runLoop's locals get their initial values
start ==
    \E target \in Targets :
        /\ spc = "idle"
        /\ IF AlreadyRunning
           THEN /\ ev' = [NoEvent EXCEPT !.kind = "start_noop"]
                /\ UNCHANGED <<running_, wpc, backoff_ms, rxBuffer, next_metrics,
                               sinceLoss, fails, host_, port_, loops, sinceStop>>
           ELSE /\ host_' = target[1]
                /\ port_' = target[2]
                /\ running_' = TRUE
                /\ wpc' = "head"
                /\ loops' = loops + 1
                /\ backoff_ms' = kBaseBackoffMs
                /\ rxBuffer' = <<>>
                /\ next_metrics' = 0
                /\ sinceLoss' = -1
                /\ sinceStop' = -1
                /\ fails' = 0
                /\ ev' = [NoEvent EXCEPT !.kind = "start"]
        /\ UNCHANGED <<sock_, spc, rxConn, nLive, nonClientVars>>

\* SocketClient::stop() up to worker_.join()
StopBegin ==
    /\ spc = "idle"
    /\ IF running_
       THEN /\ running_' = FALSE
            /\ spc' = "join"
            /\ sinceStop' = 0
            /\ ev' = [NoEvent EXCEPT !.kind = "stop"]
       ELSE /\ ev' = [NoEvent EXCEPT !.kind = "stop_noop"]
            /\ UNCHANGED <<running_, spc, sinceStop>>
    /\ UNCHANGED <<sock_, wpc, backoff_ms, rxBuffer, next_metrics, rxConn, nLive,
                   sinceLoss, fails, host_, port_, loops, nonClientVars>>

\* SocketClient::stop(): worker_.join() returns, closeSocket()
StopJoin ==
    /\ spc = "join"
    /\ wpc = "done"
    /\ wpc' = "none"
    /\ sock_' = IF sock_ >= 0 THEN closeSocket(sock_) ELSE sock_
    /\ spc' = "idle"
    /\ ev' = [NoEvent EXCEPT !.kind = "stopped"]
    /\ UNCHANGED <<running_, backoff_ms, rxBuffer, next_metrics, rxConn, nLive,
                   sinceLoss, fails, host_, port_, loops, sinceStop,
                   nonClientVars>>

\* runLoop: `if (!running_) break;` taken, closeSocket(), the thread ends
WorkerExit ==
    /\ wpc = "head"
    /\ ~running_
    /\ wpc' = "done"
    /\ loops' = loops - 1
    /\ sock_' = IF sock_ >= 0 THEN closeSocket(sock_) ELSE sock_
    /\ ev' = [NoEvent EXCEPT !.kind = "exit", !.late = sinceStop]
    /\ UNCHANGED <<running_, spc, backoff_ms, rxBuffer, next_metrics, rxConn,
                   nLive, sinceLoss, fails, host_, port_, sinceStop,
                   nonClientVars>>

\* runLoop: sock_ < 0, connectToServer is called
ConnectBegin ==
    /\ wpc = "head"
    /\ running_
    /\ sock_ < 0
    /\ wpc' = "connecting"
    /\ ev' = [NoEvent EXCEPT !.kind = "attempt", !.gap = sinceLoss]
    /\ sinceLoss' = -1
    /\ UNCHANGED <<running_, sock_, spc, backoff_ms, rxBuffer, next_metrics,
                   rxConn, nLive, fails, host_, port_, loops, sinceStop,
                   nonClientVars>>

\* connectToServer returns -1, at once or after its timeout
ConnectFail ==
    \E dt \in {0, kConnectTimeoutMs} :
        /\ wpc = "connecting"
        /\ wpc' = "sleep"
        /\ fails' = Min(fails + 1, MaxFails)
        /\ Elapse(dt)
        /\ sinceStop' = StopAge(dt)
        /\ ev' = [NoEvent EXCEPT !.kind = "connect_fail", !.dt = dt]
        /\ UNCHANGED <<running_, sock_, spc, backoff_ms, rxBuffer, next_metrics,
                       rxConn, nLive, host_, port_, loops, nonClientVars>>

\* sleep_for(backoff_ms) is over; backoff_ms = min(backoff_ms * 2, 3000); continue
SleepDone ==
    /\ wpc = "sleep"
    /\ wpc' = "head"
    /\ backoff_ms' = NextBackoff(backoff_ms)
    /\ Elapse(backoff_ms)
    /\ sinceStop' = StopAge(backoff_ms)
    /\ ev' = [NoEvent EXCEPT !.kind = "sleep", !.dt = backoff_ms,
                             !.wait = backoff_ms, !.k = fails]
    /\ UNCHANGED <<running_, sock_, spc, rxBuffer, next_metrics, rxConn, nLive,
                   fails, host_, port_, loops, nonClientVars>>

\* connectToServer returns a descriptor, at once or within its timeout:
\* sock_ = s, backoff_ms = 200, next_metrics = now
ConnectOk ==
    \E dt \in {0, kConnectTimeoutMs} :
        /\ wpc = "connecting"
        /\ wpc' = "poll"
        /\ sock_' = Fd
        /\ backoff_ms' = kBaseBackoffMs
        /\ next_metrics' = 0
        /\ fails' = 0
        /\ rxConn' = <<>>
        /\ nLive' = 0
        /\ sinceStop' = StopAge(dt)
        /\ ev' = [NoEvent EXCEPT !.kind = "connect_ok", !.dt = dt]
        /\ UNCHANGED <<running_, spc, rxBuffer, sinceLoss, host_, port_, loops,
                       nonClientVars>>

\* the worker is at `poll(&pfd, 1, timeout_ms)` with a connection
AtPoll == wpc = "poll" \/ (wpc = "head" /\ running_ /\ sock_ >= 0)

\* runLoop's timeout_ms
timeout_ms == IF next_metrics > 0 THEN Min(kPollTickMs, next_metrics) ELSE 0

\* poll returns at once or when its timeout is over
Waits == {0, timeout_ms}

\* poll or recv fails, or recv reports the end of the stream:
\* closeSocket(); continue
Disconnect(kind, dt) ==
    /\ AtPoll
    /\ wpc' = "head"
    /\ sock_' = closeSocket(sock_)
    /\ next_metrics' = next_metrics - dt
    /\ sinceLoss' = 0
    /\ sinceStop' = StopAge(dt)
    /\ rxConn' = <<>>
    /\ nLive' = 0
    /\ ev' = [NoEvent EXCEPT !.kind = kind, !.dt = dt, !.lost = TRUE]
    /\ UNCHANGED <<running_, spc, backoff_ms, rxBuffer, fails, host_, port_,
                   loops, nonClientVars>>

\* poll returns a negative value
PollError == \E dt \in Waits : Disconnect("poll_error", dt)

\* recv returns 0 or a negative value
RecvClosed == \E dt \in Waits : Disconnect("recv_closed", dt)

\* what sendAll of the SUMMARY frame does: it returns true, it returns false,
\* or send() blocks (connectToServer puts the socket back in blocking mode and
\* sendAll sets no timeout)
PushOutcomes == {"sent", "failed", "blocked"}

\* the rest of an iteration after the poll: r is the outcome of the inbound
\* part, then the periodic push, with next_metrics set before sendAll is
\* called; rx: the bytes the connection has delivered
FinishIteration(kind, dt, gotData, rx, r, push) ==
    LET remaining == next_metrics - dt
        sockAfter == IF r.failed THEN closeSocket(sock_) ELSE sock_
        due       == PushDue(remaining, gotData)
        sent      == due /\ sockAfter >= 0 /\ push = "sent"
        blocked   == due /\ sockAfter >= 0 /\ push = "blocked"
        sockEnd   == IF due /\ ~sent /\ ~blocked THEN closeSocket(sockAfter)
                     ELSE sockAfter
    IN  /\ wpc' = IF blocked THEN "sending" ELSE "head"
        /\ rxBuffer' = r.buf
        /\ nLive' = IF sockEnd < 0 THEN 0 ELSE nLive + r.replies
        /\ rxConn' = IF sockEnd < 0 THEN <<>> ELSE rx
        /\ next_metrics' = IF due THEN kMetricsMs ELSE remaining
        /\ sock_' = sockEnd
        /\ sinceLoss' = IF sockEnd < 0 THEN 0 ELSE sinceLoss
        /\ sinceStop' = StopAge(dt)
        /\ ev' = [NoEvent EXCEPT !.kind = kind, !.dt = dt, !.replies = r.replies,
                                 !.due = due,
                                 !.push = IF ~due THEN "none"
                                          ELSE IF sent THEN "sent"
                                          ELSE IF blocked THEN "blocked"
                                          ELSE "failed",
                                 !.lost = (sockEnd < 0)]
        /\ UNCHANGED <<running_, spc, backoff_ms, fails, host_, port_, loops,
                       nonClientVars>>

\* poll returns 0 after its timeout, or earlier with an event other than
\* POLLIN: no inbound part
PollQuiet ==
    \E dt \in Waits, push \in PushOutcomes :
        /\ AtPoll
        /\ FinishIteration("quiet", dt, FALSE, rxConn,
                           [buf |-> rxBuffer, replies |-> 0, failed |-> FALSE],
                           push)

\* poll reports POLLIN and recv delivers a chunk; the lines are processed
RecvData ==
    \E dt \in Waits, chunk \in Chunks, okLeft \in 0..3, push \in PushOutcomes :
        /\ AtPoll
        /\ Len(rxConn) + Len(chunk) <= MaxRx
        /\ Len(rxBuffer) + Len(chunk) <= MaxRx
        /\ FinishIteration("data", dt, TRUE, rxConn \o chunk,
                           ProcessLines(rxBuffer \o chunk, okLeft, 0), push)

\* a send() that blocked in the periodic push returns, at once or one metrics
\* interval later, because the collector read the bytes (sendAll returns true)
\* or because the connection failed (false: closeSocket(); continue)
SendReturns ==
    \E dt \in {0, kMetricsMs}, ok \in BOOLEAN :
        /\ wpc = "sending"
        /\ wpc' = "head"
        /\ next_metrics' = IF next_metrics > dt THEN next_metrics - dt ELSE 0
        /\ sock_' = IF ok THEN sock_ ELSE closeSocket(sock_)
        /\ sinceLoss' = IF ok THEN sinceLoss ELSE 0
        /\ sinceStop' = StopAge(dt)
        /\ rxConn' = IF ok THEN rxConn ELSE <<>>
        /\ nLive' = IF ok THEN nLive ELSE 0
        /\ ev' = [NoEvent EXCEPT !.kind = "send_done", !.dt = dt,
                                 !.push = IF ok THEN "sent" ELSE "failed",
                                 !.lost = ~ok]
        /\ UNCHANGED <<running_, spc, backoff_ms, rxBuffer, fails, host_, port_,
                       loops, nonClientVars>>

\* the application starts and stops the client while a collector accepts or
\* refuses connections, sends command lines, reads or does not read what the
\* client sends and closes connections
NextClient ==
    \/ start
    \/ StopBegin
    \/ StopJoin
    \/ WorkerExit
    \/ ConnectBegin
    \/ ConnectFail
    \/ SleepDone
    \/ ConnectOk
    \/ PollError
    \/ RecvClosed
    \/ PollQuiet
    \/ RecvData
    \/ SendReturns

SpecClient == Init /\ [][NextClient]_vars

\* the worker thread's steps that end within a bounded time: connectToServer
\* and poll have a timeout, sleep_for ends, recv is called when poll reported
\* data. A send() that blocked returns only when the collector acts.
Worker ==
    \/ WorkerExit
    \/ ConnectBegin
    \/ ConnectFail
    \/ SleepDone
    \/ ConnectOk
    \/ PollError
    \/ RecvClosed
    \/ PollQuiet
    \/ RecvData

\* the worker thread keeps running while it has such a step to take, and
\* stop() goes on when worker_.join() can return
SpecClientLive == SpecClient /\ WF_vars(Worker) /\ WF_vars(StopJoin)

\* ------------------------------------------------------------ serializer
\* A text is a sequence of characters. The characters that give a text its
\* structure (quote, backslash, newline, comma, colon, brackets, digits) are
\* one element each; the letters of a word of a literal ("bytes_in_use") are
\* written as one element.
QUOTE == "\""
BACKSLASH == "\\"
Digits == <<"0", "1", "2", "3", "4", "5", "6", "7", "8", "9">>

\* std::to_string of an unsigned value: its decimal digits
RECURSIVE to_string(_)
to_string(n) ==
    IF n < 10 THEN <<Digits[n + 1]>>
    ELSE to_string(n \div 10) \o <<Digits[(n % 10) + 1]>>

u64_to_str(v) == to_string(v)
ptr_to_str(p) == to_string(p)

\* json_escape that copies a newline as it is
RECURSIVE json_escape_RawNewline(_)
json_escape_RawNewline(s) ==
    IF s = <<>> THEN <<>>
    ELSE LET c == Head(s) IN
         (IF c = BACKSLASH \/ c = QUOTE THEN <<BACKSLASH, c>>
          ELSE <<c>>) \o json_escape_RawNewline(Tail(s))

\* json_escape that leaves a backslash as it is
RECURSIVE json_escape_QuoteOnly(_)
json_escape_QuoteOnly(s) ==
    IF s = <<>> THEN <<>>
    ELSE LET c == Head(s) IN
         (IF c = QUOTE THEN <<BACKSLASH, c>>
          ELSE IF c = LF THEN <<BACKSLASH, "n">>
          ELSE <<c>>) \o json_escape_QuoteOnly(Tail(s))

\* json_escape: backslash and quote get a backslash in front, a newline
\* becomes backslash n, every other character is copied
RECURSIVE json_escape(_)
json_escape(s) ==
    IF s = <<>> THEN <<>>
    ELSE LET c == Head(s) IN
         (IF c = BACKSLASH \/ c = QUOTE THEN <<BACKSLASH, c>>
          ELSE IF c = LF THEN <<BACKSLASH, "n">>
          ELSE <<c>>) \o json_escape(Tail(s))

\* make_summary_json with the peak written first
make_summary_json_PeakFirst(b, p, c) ==
    <<"{", QUOTE, "bytes_in_use", QUOTE, ":">> \o to_string(p)
        \o <<",", QUOTE, "peak", QUOTE, ":">> \o to_string(b)
        \o <<",", QUOTE, "alloc_count", QUOTE, ":">> \o to_string(c) \o <<"}">>

make_summary_json(b, p, c) ==
    <<"{", QUOTE, "bytes_in_use", QUOTE, ":">> \o to_string(b)
        \o <<",", QUOTE, "peak", QUOTE, ":">> \o to_string(p)
        \o <<",", QUOTE, "alloc_count", QUOTE, ":">> \o to_string(c) \o <<"}">>

\* the header line of make_live_allocs_csv, without its newline
CsvHeader == <<"ptr", ",", "size", ",", "alloc_id", ",", "thread_id", ",",
               "t_ns", ",", "callsite">>

\* the row make_live_allocs_csv writes for block b
CsvRow(b) ==
    ptr_to_str(b.ptr) \o <<",">> \o to_string(b.size) \o <<",">>
        \o u64_to_str(b.alloc_id) \o <<",">> \o to_string(b.thread_id) \o <<",">>
        \o u64_to_str(b.t_ns) \o <<",">> \o b.callsite \o <<LF>>

RECURSIVE CsvRows(_)
CsvRows(v) == IF v = <<>> THEN <<>> ELSE CsvRow(Head(v)) \o CsvRows(Tail(v))

make_live_allocs_csv(v) == CsvHeader \o <<LF>> \o CsvRows(v)

\* the object make_live_allocs_json writes for block b
JsonBlock(b) ==
    <<"{", QUOTE, "ptr", QUOTE, ":", QUOTE>> \o ptr_to_str(b.ptr) \o <<QUOTE, ",">>
        \o <<QUOTE, "size", QUOTE, ":">> \o to_string(b.size) \o <<",">>
        \o <<QUOTE, "alloc_id", QUOTE, ":">> \o u64_to_str(b.alloc_id) \o <<",">>
        \o <<QUOTE, "thread_id", QUOTE, ":">> \o to_string(b.thread_id) \o <<",">>
        \o <<QUOTE, "t_ns", QUOTE, ":">> \o u64_to_str(b.t_ns) \o <<",">>
        \o <<QUOTE, "callsite", QUOTE, ":", QUOTE>> \o json_escape(b.callsite)
        \o <<QUOTE, ",">>
        \o <<QUOTE, "file", QUOTE, ":", QUOTE>> \o json_escape(b.file)
        \o <<QUOTE, ",">>
        \o <<QUOTE, "line", QUOTE, ":">> \o to_string(b.line) \o <<",">>
        \o <<QUOTE, "type_name", QUOTE, ":", QUOTE>> \o json_escape(b.type_name)
        \o <<QUOTE, "}">>

RECURSIVE JsonBlocks(_, _)
JsonBlocks(v, first) ==
    IF v = <<>> THEN <<>>
    ELSE (IF first THEN <<>> ELSE <<",">>) \o JsonBlock(Head(v))
            \o JsonBlocks(Tail(v), FALSE)

make_live_allocs_json(v) ==
    <<"{", QUOTE, "blocks", QUOTE, ":", "[">> \o JsonBlocks(v, TRUE) \o <<"]", "}">>

\* make_message_json(type, payload)
make_message_json(type, payload) ==
    <<"{", QUOTE, "type", QUOTE, ":", QUOTE, type, QUOTE, ",",
      QUOTE, "payload", QUOTE, ":">> \o payload \o <<"}">>

\* what the slot of the callback set cb returns: the tracker's getter, or 0
\* from the no-op of init_noop / register_callbacks
bytesInUse(cb) == IF cb["bytesInUse"] = "mt" THEN activeBytes ELSE 0
peakBytesSlot(cb) == IF cb["peakBytes"] = "mt" THEN peakBytes ELSE 0
allocCount(cb) == IF cb["allocCount"] = "mt" THEN totalAllocs ELSE 0

\* the sizes of the allocations reported while texts are built
SerSizes == {1, 12}

\* the strings a block's file and type name are drawn from: every string of at
\* most MaxStr characters over Alphabet
Alphabet == {"a", "n", QUOTE, BACKSLASH, LF}
Strs == UNION {[1..n -> Alphabet] : n \in 0..MaxStr}
TypeStrs == {<<"T">>, <<QUOTE, BACKSLASH>>, <<BACKSLASH, "n", LF>>}

\* the block cb.liveBlocks builds for a record with the given file, line and
\* type name: callsite is file:line, and "?", "?:0" and "unknown" stand for a
\* missing file or type name
BlockOf(p, sz, id, file, line, type) ==
    [ptr |-> p, size |-> sz, alloc_id |-> id, thread_id |-> 1, t_ns |-> 105,
     callsite |-> IF file = <<>> THEN <<"?", ":", "0">>
                  ELSE file \o <<":">> \o to_string(line),
     file |-> IF file = <<>> THEN <<"?">> ELSE file,
     line |-> IF file = <<>> THEN 0 ELSE line,
     type_name |-> IF type = <<>> THEN <<"unknown">> ELSE type]

\* the vectors passed to make_live_allocs_json: none or one block
JsonVectors ==
    {<<>>} \cup {<<BlockOf(20, 12, 3, f, 7, ty)>> : f \in Strs, ty \in TypeStrs}

\* the vectors passed to make_live_allocs_csv: up to MaxBlocks blocks whose
\* file name is plain, has a comma in it, or has a newline in it
CsvFiles == {<<>>, <<"a", ",", "b">>, <<"a", LF, "b">>}
CsvBlocks == {BlockOf(p, 12, p + 1, f, 7, <<>>) : p \in {1, 20}, f \in CsvFiles}
CsvVectors == UNION {[1..n -> CsvBlocks] : n \in 0..MaxBlocks}

\* the frame of a serializer call
SerCall(fn, v, text) ==
    /\ res = NoResult
    /\ arg' = [fn |-> fn, v |-> v]
    /\ res' = text
    /\ UNCHANGED <<ledgerVars, reg, seen, clientVars, exportVars, sideVars>>

\* mp::summary_json(): get_callbacks(), then make_summary_json of three slots
summary_json ==
    /\ g_cb' = call_once_init
    /\ g_init_once' = TRUE
    /\ SerCall("summary_json", <<>>,
               make_summary_json(bytesInUse(call_once_init),
                                 peakBytesSlot(call_once_init),
                                 allocCount(call_once_init)))

\* mp::live_allocs_csv() with a callback set whose liveBlocks returns v
live_allocs_csv ==
    \E v \in CsvVectors :
        /\ g_cb' = call_once_init
        /\ g_init_once' = TRUE
        /\ SerCall("live_allocs_csv", v, make_live_allocs_csv(v))

\* make_live_allocs_json(v), as live_allocs_message_json() calls it
live_allocs_json ==
    \E v \in JsonVectors :
        /\ g_cb' = call_once_init
        /\ g_init_once' = TRUE
        /\ SerCall("live_allocs_json", v, make_live_allocs_json(v))

\* mp::summary_message_json() with the callback set cb
summary_message_json(cb) ==
    make_message_json("SUMMARY",
        make_summary_json(bytesInUse(cb), peakBytesSlot(cb), allocCount(cb)))

\* mp::live_allocs_message_json() with a callback set whose liveBlocks
\* returns v
live_allocs_message_json(v) ==
    make_message_json("LIVE_ALLOCS", make_live_allocs_json(v))

\* json.push_back('\n'): the bytes runLoop gives to sendAll
push_back(json, c) == Append(json, c)

\* runLoop's periodic push: the frame built from getMetricsJson()
MetricsFrame ==
    /\ g_cb' = call_once_init
    /\ g_init_once' = TRUE
    /\ SerCall("metrics_frame", <<>>,
               push_back(summary_message_json(call_once_init), LF))

\* runLoop's reply to a SNAPSHOT line: the frame built from getSnapshotJson()
SnapshotFrame ==
    \E v \in JsonVectors :
        /\ g_cb' = call_once_init
        /\ g_init_once' = TRUE
        /\ SerCall("snapshot_frame", v,
                   push_back(live_allocs_message_json(v), LF))

\* the caller destroys the text
ReleaseResult ==
    /\ res # NoResult
    /\ arg' = NoArg
    /\ res' = NoResult
    /\ UNCHANGED <<ledgerVars, g_cb, g_init_once, reg, seen, clientVars,
                   exportVars, sideVars>>

\* a thread that holds no text installs the tracker and reports allocations
\* and frees; it calls the serializers and releases what they return
NextSerializer ==
    \/ res = NoResult /\ install_callbacks_with_memorytracker
    \/ res = NoResult /\ \E sz \in SerSizes : cb_onAlloc(sz)
    \/ res = NoResult /\ cb_onFree
    \/ summary_json
    \/ live_allocs_csv
    \/ live_allocs_json
    \/ MetricsFrame
    \/ SnapshotFrame
    \/ ReleaseResult

SpecSerializer == Init /\ [][NextSerializer]_vars

\* ------------------------------------- concurrent direct calls of the tracker
\* what the calls below leave alone
callRest == <<g_alloc_id, g_cb, g_init_once, held, internal, g_callsite, stk,
              lastCall, reg, seen, clientVars, exportVars, serVars, scopes,
              raceVars>>

\* the blocks the allocator gives to snapshotLive's vectors: they are obtained
\* and released with the flag set, no hook reports them and the ledger never
\* sees their addresses
VecAddrs == (NAddr + 1)..(NAddr + NThreads)

\* a lock acquisition that excludes nobody
LockGuard_Open(t) == 0

\* std::lock_guard<std::mutex> lock(mu_): mu_ while thread t holds it
LockGuard(t) == t

\* thread t calls onAlloc(p, sz, type, file, line, isArray) with a non-null p
\* and a non-zero sz: the record is built before the lock is taken
OnAllocCall(t) ==
    \E p \in Addrs, sz \in Sizes \ {0}, a \in HarnessArgs, isArray \in BOOLEAN :
        /\ call[t].op = "none"
        /\ total_allocs
             + Cardinality({u \in Threads : call[u].op = "onAlloc"}) < MaxAllocs
        /\ call' = [call EXCEPT ![t] =
                      [NoDirectCall EXCEPT !.op = "onAlloc", !.pc = "wait",
                         !.p = p,
                         !.rec = AllocationRecord(p, sz, a.type_name, a.file,
                                                  a.line, isArray)]]
        /\ UNCHANGED <<trackerVars, mu, heap, in_hook, noted, callRest>>

\* thread t calls onFree(p, isArray) with a non-null p
OnFreeCall(t) ==
    \E p \in Addrs :
        /\ call[t].op = "none"
        /\ call' = [call EXCEPT ![t] =
                      [NoDirectCall EXCEPT !.op = "onFree", !.pc = "wait",
                                           !.p = p]]
        /\ UNCHANGED <<trackerVars, mu, heap, in_hook, noted, callRest>>

\* std::lock_guard<std::mutex> lock(mu_) in onAlloc / onFree
UpdateLock(t) ==
    /\ call[t].op \in {"onAlloc", "onFree"} /\ call[t].pc = "wait"
    /\ mu = 0
    /\ mu' = LockGuard(t)
    /\ call' = [call EXCEPT ![t].pc = "locked"]
    /\ UNCHANGED <<trackerVars, heap, in_hook, noted, callRest>>

\* the body of onAlloc / onFree under the lock, the unlock and the return
UpdateBody(t) ==
    /\ call[t].op \in {"onAlloc", "onFree"} /\ call[t].pc = "locked"
    /\ IF call[t].op = "onAlloc"
       THEN /\ MemoryTracker_onAlloc(call[t].p, call[t].rec.size,
                                     call[t].rec.type_name, call[t].rec.file,
                                     call[t].rec.line, call[t].rec.is_array)
            /\ noted' = [x \in DOMAIN noted \cup {call[t].p} |->
                           IF x = call[t].p THEN call[t].rec ELSE noted[x]]
       ELSE /\ MemoryTracker_onFree(call[t].p)
            /\ noted' = [x \in DOMAIN noted \ {call[t].p} |-> noted[x]]
    /\ mu' = 0
    /\ call' = [call EXCEPT ![t] = NoDirectCall]
    /\ UNCHANGED <<heap, in_hook, callRest>>

\* a ScopedHookGuard that leaves the flag as it is
ScopedHookGuard_Unset(f) == f

\* ScopedHookGuard(): in_hook = true
ScopedHookGuard(f) == TRUE

\* cb.liveBlocks() up to the lock of snapshotLive(): ScopedHookGuard guard
\* (twice, the lister's and snapshotLive's own)
SnapshotCall(t) ==
    /\ call[t].op = "none"
    /\ call' = [call EXCEPT ![t] =
                  [NoDirectCall EXCEPT !.op = "snapshot", !.pc = "wait",
                                       !.prev = in_hook[t]]]
    /\ in_hook' = [in_hook EXCEPT ![t] = ScopedHookGuard(@)]
    /\ UNCHANGED <<trackerVars, mu, heap, noted, callRest>>

\* snapshotLive: lock_guard lock(mu_); out.reserve(live_.size()), which gets
\* the vector's buffer from operator new with the flag set when the table is
\* not empty
SnapshotLock(t) ==
    /\ call[t].op = "snapshot" /\ call[t].pc = "wait"
    /\ mu = 0
    /\ mu' = LockGuard(t)
    /\ \E b \in IF live = <<>> THEN {NULL} ELSE VecAddrs \ heap :
         /\ heap' = heap \cup ({b} \ {NULL})
         /\ call' = [call EXCEPT ![t].pc = "copy", ![t].buf = b,
                                 ![t].at = live, ![t].notedAt = noted]
    /\ UNCHANGED <<trackerVars, in_hook, noted, callRest>>

\* the addresses the loop of snapshotLive has visited
Visited(t) == {call[t].out[i].ptr : i \in 1..Len(call[t].out)}

\* one turn of `for (const auto& kv : live_) out.push_back(kv.second)`
SnapshotCopy(t) ==
    /\ call[t].op = "snapshot" /\ call[t].pc = "copy"
    /\ \E p \in DOMAIN live \ Visited(t) :
         call' = [call EXCEPT ![t].out = Append(@, live[p])]
    /\ UNCHANGED <<trackerVars, mu, heap, in_hook, noted, callRest>>

\* the loop has visited the table: return out, which unlocks mu_ and ends
\* snapshotLive's guard
SnapshotReturn(t) ==
    /\ call[t].op = "snapshot" /\ call[t].pc = "copy"
    /\ DOMAIN live \subseteq Visited(t)
    /\ mu' = 0
    /\ call' = [call EXCEPT ![t].pc = "returned"]
    /\ UNCHANGED <<trackerVars, heap, in_hook, noted, callRest>>

\* the lister has converted the records: ~recs releases the buffer with the
\* flag set, ~ScopedHookGuard restores the flag
SnapshotRelease(t) ==
    /\ call[t].op = "snapshot" /\ call[t].pc = "returned"
    /\ heap' = heap \ {call[t].buf}
    /\ in_hook' = [in_hook EXCEPT ![t] = call[t].prev]
    /\ call' = [call EXCEPT ![t] = NoDirectCall]
    /\ UNCHANGED <<trackerVars, mu, noted, callRest>>

\* threads call onAlloc, onFree and snapshotLive concurrently
NextSnapshot ==
    \/ \E t \in Threads : OnAllocCall(t)
    \/ \E t \in Threads : OnFreeCall(t)
    \/ \E t \in Threads : UpdateLock(t)
    \/ \E t \in Threads : UpdateBody(t)
    \/ \E t \in Threads : SnapshotCall(t)
    \/ \E t \in Threads : SnapshotLock(t)
    \/ \E t \in Threads : SnapshotCopy(t)
    \/ \E t \in Threads : SnapshotReturn(t)
    \/ \E t \in Threads : SnapshotRelease(t)

SpecSnapshot == Init /\ [][NextSnapshot]_vars


\* ----------------------------------------- every path to the ledger lock
\* thread t is inside lock_guard's constructor, waiting for mu_
Blocked(t) ==
    \/ call[t].pc = "wait"
    \/ /\ stk[t] # <<>>
       /\ Top(t).kind \in HookKinds /\ Top(t).pc = "in_cb" /\ Top(t).cb = "mt"

\* cb.bytesInUse(), cb.peakBytes() or cb.allocCount() with the tracker
\* installed, called by summary_json() / summary_message_json(): the getter
\* up to its lock_guard
GetterCall(t) ==
    /\ call[t].op = "none"
    /\ g_cb["bytesInUse"] = "mt"
    /\ call' = [call EXCEPT ![t] =
                  [NoDirectCall EXCEPT !.op = "getter", !.pc = "wait"]]
    /\ UNCHANGED <<trackerVars, mu, heap, in_hook, noted, callRest>>

\* activeBytes() / peakBytes() / totalAllocs(): lock, read, unlock, return
GetterRead(t) ==
    /\ call[t].op = "getter" /\ call[t].pc = "wait"
    /\ mu = 0
    /\ call' = [call EXCEPT ![t] = NoDirectCall]
    /\ UNCHANGED <<trackerVars, mu, heap, in_hook, noted, callRest>>

\* a step of thread t on a path that reaches the ledger: the hooks, with the
\* allocator traffic of the code that runs under the lock; the lister; the
\* getters of the query API. The telemetry client takes the same paths under
\* its AntiReentry guard
LockStep(t) ==
    \/ ~Blocked(t) /\ OperatorNew(t)
    \/ ~Blocked(t) /\ OperatorDelete(t)
    \/ TrackerLock(t)
    \/ TrackerUpdate(t)
    \/ NewReturn(t)
    \/ DeleteAfterCallback(t)
    \/ DeleteFree(t)
    \/ stk[t] = <<>> /\ SnapshotCall(t)
    \/ SnapshotLock(t)
    \/ SnapshotCopy(t)
    \/ SnapshotReturn(t)
    \/ SnapshotRelease(t)
    \/ stk[t] = <<>> /\ GetterCall(t)
    \/ GetterRead(t)

NextLock ==
    \/ install_callbacks_with_memorytracker
    \/ \E t \in Threads : LockStep(t)

SpecLock == Init /\ [][NextLock]_vars

\* the code that runs under the lock comes to its end: the body of onAlloc /
\* onFree and the loop of snapshotLive are finite
SpecLockLive ==
    /\ SpecLock
    /\ \A t \in Threads : WF_vars(TrackerUpdate(t))
    /\ \A t \in Threads : WF_vars(SnapshotCopy(t) \/ SnapshotReturn(t))

\* --------------------------------------------- a summary under concurrency
\* the three arguments of make_summary_json(cb.bytesInUse(), cb.peakBytes(),
\* cb.allocCount())
Getters == {"bytesInUse", "peakBytes", "allocCount"}

\* an evaluation that always goes from the first argument to the last
ArgumentOrders_LeftToRight == {<<"bytesInUse", "peakBytes", "allocCount">>}

\* the orders in which the arguments of a call may be evaluated: the language
\* leaves the order to the compiler
ArgumentOrders ==
    {o \in [1..3 -> Getters] : \A g \in Getters : \E i \in 1..3 : o[i] = g}

\* summary_json() / summary_message_json() on thread t, up to the evaluation of
\* the first argument
SummaryCall(t) ==
    \E o \in ArgumentOrders :
        /\ call[t].op = "none"
        /\ g_cb' = call_once_init
        /\ g_init_once' = TRUE
        /\ call' = [call EXCEPT ![t] =
                      [NoDirectCall EXCEPT !.op = "summary", !.pc = "args",
                                           !.todo = o]]
        /\ UNCHANGED <<trackerVars, mu, g_alloc_id, heap, held, internal,
                       in_hook, g_callsite, stk, lastCall, reg, seen,
                       clientVars, exportVars, serVars, noted, scopes,
                       raceVars>>

\* the next argument is evaluated: the getter locks mu_, reads its metric,
\* unlocks and returns
SummaryRead(t) ==
    /\ call[t].op = "summary" /\ call[t].pc = "args"
    /\ call[t].todo # <<>>
    /\ mu = 0
    /\ LET g == Head(call[t].todo) IN
         call' = [call EXCEPT
                    ![t].todo = Tail(@),
                    ![t].b  = IF g = "bytesInUse" THEN bytesInUse(g_cb) ELSE @,
                    ![t].pk = IF g = "peakBytes" THEN peakBytesSlot(g_cb) ELSE @,
                    ![t].c  = IF g = "allocCount" THEN allocCount(g_cb) ELSE @]
    /\ UNCHANGED <<trackerVars, mu, heap, in_hook, noted, callRest>>

\* make_summary_json(b, p, c) returns the text
SummaryReturn(t) ==
    /\ call[t].op = "summary" /\ call[t].pc = "args"
    /\ call[t].todo = <<>>
    /\ call' = [call EXCEPT
                  ![t].pc = "returned",
                  ![t].out = make_summary_json(call[t].b, call[t].pk, call[t].c)]
    /\ UNCHANGED <<trackerVars, mu, heap, in_hook, noted, callRest>>

\* the caller destroys the text
SummaryRelease(t) ==
    /\ call[t].op = "summary" /\ call[t].pc = "returned"
    /\ call' = [call EXCEPT ![t] = NoDirectCall]
    /\ UNCHANGED <<trackerVars, mu, heap, in_hook, noted, callRest>>

\* one thread builds summaries while the hooks of other threads report
\* allocations and frees
NextSummary ==
    \/ install_callbacks_with_memorytracker
    \/ \E sz \in Sizes \ {0} : cb_onAlloc(sz)
    \/ cb_onFree
    \/ SummaryCall(Main)
    \/ SummaryRead(Main)
    \/ SummaryReturn(Main)
    \/ SummaryRelease(Main)

SpecSummary == Init /\ [][NextSummary]_vars

\* ================================================================ claims
RECURSIVE SumSizes(_, _)
SumSizes(m, S) ==
    IF S = {} THEN 0
    ELSE LET a == CHOOSE x \in S : TRUE IN m[a].size + SumSizes(m, S \ {a})

Max(a, b) == IF a >= b THEN a ELSE b

RECURSIVE Pow2(_)
Pow2(n) == IF n <= 0 THEN 1 ELSE 2 * Pow2(n - 1)

\* the stack of thread t holds an open guarded region
InRegion(t) == \E i \in 1..Len(stk[t]) : stk[t][i].kind = "guard"

\* on-allocate / on-free callbacks in progress on thread t
CbDepth(t) ==
    Cardinality({i \in 1..Len(stk[t]) :
                    /\ stk[t][i].kind \in HookKinds
                    /\ stk[t][i].pc \in {"in_cb", "locked", "unlocked"}})

\* C1 (as stated): after any sequence of onAlloc / onFree calls activeBytes()
\* is the sum of the sizes of the records in the table and activeAllocs() is
\* the number of records.
C1_LedgerMatchesTable ==
    /\ activeBytes = SumSizes(live, DOMAIN live)
    /\ activeAllocs = Cardinality(DOMAIN live)

\* C2 (as stated): every record of the table is of a block that is really
\* allocated and not yet really deallocated.
C2_TableIsOutstanding == DOMAIN live \subseteq heap

\* C3: peakBytes() never decreases and is at least activeBytes() in every state.
C3_PeakMonotoneAndAbove ==
    /\ [](peakBytes >= activeBytes)
    /\ [][peak_bytes' >= peak_bytes]_vars

C3_Witness ==
    /\ lastCall.kind = "onFree" /\ lastCall.had
    /\ peakBytes > activeBytes /\ activeBytes > 0

\* C4 (as stated): after onAlloc(addr, size, ...) with non-null addr and
\* non-zero size the table holds for addr the record just passed, also when addr
\* already had a record.
C4_RecordIsTheOnePassed ==
    (lastCall.kind = "onAlloc" /\ lastCall.p # NULL /\ lastCall.sz # 0)
        => /\ lastCall.p \in DOMAIN live
           /\ live[lastCall.p] =
                AllocationRecord(lastCall.p, lastCall.sz, lastCall.args.type_name,
                                 lastCall.args.file, lastCall.args.line,
                                 lastCall.arr)

\* C5: onFree of the null address or of an address without a record leaves the
\* table and the four metrics unchanged.
C5_FreeOfUntrackedIsNoOp ==
    [][(lastCall'.kind = "onFree"
            /\ (lastCall'.p = NULL \/ lastCall'.p \notin DOMAIN live))
         => UNCHANGED trackerVars]_vars

C5_Witness ==
    /\ lastCall.kind = "onFree" /\ lastCall.p # NULL /\ ~lastCall.had
    /\ live # <<>> /\ totalAllocs > activeAllocs

\* C6: onAlloc of an address without a record and size s > 0 adds 1 to
\* totalAllocs and activeAllocs and s to activeBytes and makes peakBytes the
\* maximum of the old peak and the new activeBytes; onFree of an address whose
\* record has size s subtracts exactly s and 1, removes the record and leaves
\* peakBytes and totalAllocs unchanged.
C6_MetricUpdateRule ==
    [][/\ (lastCall'.kind = "onAlloc" /\ lastCall'.p # NULL /\ lastCall'.sz > 0
              /\ lastCall'.p \notin DOMAIN live)
           => /\ total_allocs' = total_allocs + 1
              /\ active_allocs' = active_allocs + 1
              /\ active_bytes' = active_bytes + lastCall'.sz
              /\ peak_bytes' = Max(peak_bytes, active_bytes')
       /\ (lastCall'.kind = "onFree" /\ lastCall'.p \in DOMAIN live)
           => /\ active_bytes' = active_bytes - live[lastCall'.p].size
              /\ active_allocs' = active_allocs - 1
              /\ lastCall'.p \notin DOMAIN live'
              /\ peak_bytes' = peak_bytes
              /\ total_allocs' = total_allocs]_vars

C6_Witness ==
    /\ lastCall.kind = "onFree" /\ lastCall.had
    /\ activeAllocs = 1 /\ totalAllocs = 2 /\ peakBytes = activeBytes + MaxSize

\* C7: inside a guarded region the flag is true at every point, whatever regions
\* and hook calls were entered and left inside it, and the exit of a region
\* leaves the flag at the value it had when the region was entered.
C7_FlagHeldInsideRegions ==
    /\ [](\A t \in Threads : InRegion(t) => in_hook[t])
    /\ [][\A t \in Threads :
            (Len(stk'[t]) < Len(stk[t]) /\ Top(t).kind = "guard")
                => in_hook'[t] = Top(t).pre]_vars

C7_Witness ==
    /\ Len(stk[Main]) = 1 /\ InRegion(Main) /\ in_hook[Main]
    /\ lastCall.kind \in {"new", "delete"} /\ lastCall.guarded

\* C8: an allocate or free entry point called with the flag engaged invokes no
\* callback, leaves the table, the metrics and the callsite context unchanged
\* and leaves the flag engaged; it only allocates or frees the block.
C8_GuardedCallIsRawOnly ==
    /\ [](\A t \in Threads : \A i \in 1..Len(stk[t]) :
            stk[t][i].kind \in HookKinds => ~stk[t][i].pre)
    /\ [][(lastCall'.kind \in {"new", "delete"} /\ lastCall'.guarded)
            => /\ lastCall'.ncb = 0
               /\ UNCHANGED <<trackerVars, g_alloc_id, g_callsite, stk, mu>>
               /\ in_hook[lastCall'.t] /\ in_hook' = in_hook
               /\ heap' = IF lastCall'.kind = "new"
                          THEN heap \cup {lastCall'.p}
                          ELSE heap \ {lastCall'.p}]_vars

C8_Witness ==
    /\ lastCall.kind = "new" /\ lastCall.guarded
    /\ InRegion(Main) /\ g_callsite[Main] # EmptyCallsite
    /\ g_cb["onAlloc"] = "mt" /\ live # <<>>

\* C9: on each thread at most one on-allocate / on-free callback is in progress
\* at any time, and while it runs the flag is engaged.
C9_CallbackDepthAtMostOne ==
    \A t \in Threads :
        /\ CbDepth(t) <= 1
        /\ CbDepth(t) = 1 => in_hook[t]

C9_Witness ==
    /\ InCallback(Main) /\ Top(Main).cb = "mt" /\ Top(Main).pc = "locked"
    /\ lastCall.kind \in {"new", "delete"} /\ lastCall.guarded

\* C10: a free of a non-null address really deallocates the block exactly once,
\* at its last step; on-free is invoked iff the flag was not engaged at entry and
\* the block is still allocated while it runs; a free of nullptr does neither.
C10_FreeNotifiesThenDeallocates ==
    /\ [](\A t \in Threads : \A i \in 1..Len(stk[t]) :
            stk[t][i].kind = "delete" => stk[t][i].p \in heap)
    /\ [][/\ lastCall'.kind = "delete"
              => /\ lastCall'.p \in heap /\ lastCall'.p \notin heap'
                 /\ lastCall'.nfree = 1
                 /\ (lastCall'.ncb = 1) <=> ~lastCall'.guarded
          /\ lastCall'.kind = "delete_null"
              => /\ lastCall'.ncb = 0 /\ lastCall'.nfree = 0
                 /\ UNCHANGED <<trackerVars, heap, held, internal, stk>>]_vars

C10_Witness ==
    /\ lastCall.kind = "delete" /\ ~lastCall.guarded /\ lastCall.ncb = 1
    /\ lastCall.p \notin heap /\ g_cb["onFree"] = "mt"

\* C11: when the underlying allocation fails the allocate entry point reports
\* out-of-memory after its one allocation attempt: it invokes no callback and
\* leaves the ledger, the allocation ids, the heap, the thread's flag, its
\* callsite context and its open calls unchanged.
C11_FailedAllocationOnlyThrows ==
    [][lastCall'.kind = "bad_alloc"
        => /\ lastCall'.ncb = 0 /\ lastCall'.p = NULL
           /\ UNCHANGED <<trackerVars, mu, g_alloc_id, g_cb, g_init_once, heap,
                          held, internal, in_hook, g_callsite, stk>>]_vars

C11_Witness ==
    /\ lastCall.kind = "bad_alloc" /\ ~lastCall.guarded
    /\ g_callsite[Main] # EmptyCallsite
    /\ g_cb["onAlloc"] = "mt" /\ live # <<>>

\* C12: when an allocate call that ran with the flag not engaged returns, the
\* thread's callsite context is empty; while the call runs, the context it
\* forwards to on-allocate is the one the thread had set, so the context reaches
\* the next unguarded allocation and none after it.
C12_ContextConsumedByNextAllocation ==
    /\ [](\A t \in Threads : \A i \in 1..Len(stk[t]) :
            stk[t][i].kind = "new" => stk[t][i].cs = g_callsite[t])
    /\ [][(lastCall'.kind = "new" /\ ~lastCall'.guarded)
            => /\ g_callsite'[lastCall'.t] = EmptyCallsite
               /\ Top(lastCall'.t).cs = g_callsite[lastCall'.t]]_vars

C12_Witness ==
    /\ lastCall.kind = "new" /\ ~lastCall.guarded
    /\ g_callsite[Main] = EmptyCallsite
    /\ \E p \in DOMAIN live : live[p].file # NullStr /\ live[p].type_name # NullStr

\* C13 (as stated): whenever a thread reads the active callback set through
\* get_callbacks(), also while a register_callbacks() call is in progress, none
\* of the seven slots it sees is empty.
C13_ObservedSetIsCallable ==
    seen # NotSeen => \A s \in Slots : seen[s] # "empty"

\* C14: when register_callbacks(c) returns, the active set is c with each slot
\* c left unset replaced by the no-op default, whatever set was active before:
\* no slot of an earlier registration survives and registering c again leaves
\* the same set.
C14_RegistrationReplaces ==
    reg.ret => g_cb = [s \in Slots |-> IF reg.c[s] = "empty" THEN "noop"
                                       ELSE reg.c[s]]

C14_Witness ==
    /\ reg.ret
    /\ \E s1, s2 \in Slots :
          /\ reg.old[s1] = "mt" /\ reg.c[s1] = "empty" /\ g_cb[s1] = "noop"
          /\ reg.old[s2] = "mt" /\ reg.c[s2] = "user" /\ g_cb[s2] = "user"

\* C18 (as stated): the number of blocks in the payload of a LIVE_ALLOCS
\* message equals activeAllocs() when the message is built and sent, whatever
\* calls preceded it.
C18_BlockCountIsActiveAllocs ==
    lastCall.kind = "live_allocs" => lastCall.sz = activeAllocs

\* C15: the reconnect backoff is within [200 ms, 3000 ms] in every state; the
\* wait after the k-th failed connect attempt in a row is min(200 * 2^(k-1),
\* 3000) ms; the backoff is 200 ms after every successful connect.
C15_BackoffDoublesWithinBounds ==
    /\ [](backoff_ms >= kBaseBackoffMs /\ backoff_ms <= kMaxBackoffMs)
    /\ []((ev.kind = "sleep" /\ ev.k < MaxFails)
            => ev.wait = Min(kBaseBackoffMs * Pow2(ev.k - 1), kMaxBackoffMs))
    /\ [](ev.kind = "connect_ok" => backoff_ms = kBaseBackoffMs)

C15_Witness ==
    /\ ev.kind = "sleep" /\ ev.k = MaxFails - 1 /\ ev.wait = kMaxBackoffMs
    /\ backoff_ms = kMaxBackoffMs

\* C16 (as stated): the first connect attempt after an established connection
\* was lost begins no earlier than one base backoff interval after the loss.
C16_RetryAfterLossWaits ==
    (ev.kind = "attempt" /\ ev.gap # -1) => ev.gap >= kBaseBackoffMs

\* a line without the whitespace around it
Strip(l) ==
    LET inner == {i \in 1..Len(l) : l[i] \notin TrimChars} IN
    IF inner = {} THEN <<>>
    ELSE SubSeq(l, CHOOSE i \in inner : \A j \in inner : i <= j,
                   CHOOSE i \in inner : \A j \in inner : i >= j)

\* the newline-terminated lines of a byte stream that are the SNAPSHOT command:
\* the positions of their newlines
CommandLines(str) ==
    {e \in 1..Len(str) :
        /\ str[e] = LF
        /\ \E b \in 1..e :
              /\ b = 1 \/ str[b-1] = LF
              /\ \A i \in b..(e-1) : str[i] # LF
              /\ Strip(SubSeq(str, b, e-1)) = Snapshot}

\* C17 (as stated): on a connection the client has sent one LIVE_ALLOCS frame
\* for each newline-terminated line of the connection's inbound stream that is
\* SNAPSHOT after trimming, and none for other lines or unterminated bytes.
C17_OneReplyPerCommandLine ==
    sock_ >= 0 => nLive = Cardinality(CommandLines(rxConn))

\* C19: while connected, every loop iteration in which the push time has
\* arrived sends a SUMMARY frame and sets the next push time one metrics
\* interval later, with or without inbound data in the iteration; the push time
\* has arrived right after every successful connect.
C19_DuePushIsSentEachIteration ==
    /\ [][(ev'.kind \in {"quiet", "data"} /\ next_metrics - ev'.dt <= 0)
            => /\ ev'.push \in PushOutcomes
               /\ ev'.push = "failed" => sock_' < 0
               /\ next_metrics' = kMetricsMs]_vars
    /\ [](ev.kind = "connect_ok" => next_metrics = 0)

C19_Witness ==
    /\ ev.kind = "data" /\ ev.replies > 0 /\ ev.push = "sent"
    /\ sock_ >= 0 /\ next_metrics = kMetricsMs /\ rxBuffer # <<>>

\* C20: a failed send of a reply or of a push, the end of the stream and an
\* error on poll or recv close the socket and leave the client disconnected
\* with its loop running; a running client that is disconnected makes another
\* connect attempt.
C20_LossReturnsToDisconnected ==
    /\ [](ev.lost => (sock_ = -1 /\ wpc = "head"))
    /\ [][ev'.lost => (running_' = running_ /\ spc' = spc)]_vars
    /\ ((sock_ = -1 /\ running_ /\ wpc # "none")
            ~> (wpc = "connecting" \/ ~running_))

C20_Witness ==
    /\ ev.kind = "attempt" /\ ev.gap = 0 /\ running_
    /\ backoff_ms = kBaseBackoffMs /\ wpc = "connecting"

\* C21: with start() and stop() called from one thread, at most one runLoop
\* thread exists and a connection is opened only when none is open; start()
\* on a running client changes nothing, neither host nor port nor the worker;
\* start() on a client that is not running (new, or after stop() returned)
\* launches one loop with fresh locals for the host and port passed.
C21_OneLoopOneConnection ==
    /\ [](loops <= 1)
    /\ [](loops = (IF wpc \in {"none", "done"} THEN 0 ELSE 1))
    /\ [][ev'.kind = "connect_ok" => (sock_ < 0 /\ sock_' = Fd)]_vars
    /\ [][ev'.kind = "start_noop"
            => /\ running_
               /\ UNCHANGED <<running_, host_, port_, loops, wpc, sock_,
                              backoff_ms, rxBuffer, next_metrics>>]_vars
    /\ [][ev'.kind = "start"
            => /\ ~running_ /\ wpc = "none" /\ sock_ < 0 /\ loops = 0
               /\ running_' /\ wpc' = "head" /\ loops' = 1
               /\ <<host_', port_'>> \in Targets
               /\ backoff_ms' = kBaseBackoffMs /\ rxBuffer' = <<>>]_vars

C21_Witness ==
    /\ ev.kind = "start_noop"
    /\ host_ = "collector" /\ sock_ >= 0 /\ loops = 1 /\ rxBuffer # <<>>

\* a second start() after a stop() has returned: the client was started for
\* "collector", and runs for "127.0.0.1" again
C21_WitnessRestart ==
    /\ ev.kind = "start" /\ host_ = "collector" /\ sinceLoss = -1 /\ loops = 1

\* C22 (as stated): a stop() that found the client running returns, whatever
\* the loop was doing; when it returns the loop has ended, no connection is
\* open and running_ is false; stop() on a client that is not running changes
\* nothing.
C22_StopReturns ==
    /\ (spc = "join") ~> (spc = "idle")
    /\ [](ev.kind = "stopped"
            => (wpc = "none" /\ loops = 0 /\ sock_ = -1 /\ ~running_))
    /\ [][ev'.kind = "stop_noop"
            => UNCHANGED <<running_, sock_, wpc, spc, loops, host_, port_>>]_vars

\* the part of C22 that holds: stop() returns from every loop state but a
\* send() that stays blocked
C22_StopReturnsUnlessSending ==
    (spc = "join") ~> (spc = "idle" \/ wpc = "sending")

\* C23 (as stated): the loop ends within one poll tick (50 ms) of the moment
\* stop() cleared running_, whatever it was doing at that moment.
C23_ExitWithinPollTick ==
    ev.kind = "exit" => ev.late <= kPollTickMs

\* C30 (as stated): a thread that holds mu_ inside MemoryTracker::onAlloc or
\* onFree calls neither operator new nor operator delete: no call of either
\* has just returned to a thread that holds the lock.
C30_NoAllocatorCallUnderLock ==
    \A t \in Threads :
        (mu = t /\ lastCall.t = t) => lastCall.kind \notin {"new", "delete"}

\* thread t is building a telemetry frame
InFrameSpan(t) == stk[t] # <<>> /\ stk[t][1].kind = "frame"

\* C24: from the AntiReentry guard of a SNAPSHOT reply or of a periodic push to
\* its destruction the telemetry thread's flag is set, no hook call invokes a
\* callback, and the table and the four metrics stay what they were when the
\* guard was constructed; when the frame's buffers are released and the guard
\* is destroyed the ledger is the one found at entry and the flag is back at
\* its prior value.
C24_FrameLeavesLedger ==
    /\ [](InFrameSpan(Main)
            => /\ Len(stk[Main]) = 1
               /\ in_hook[Main]
               /\ Ledger = Top(Main).led
               /\ lastCall.kind \in {"new", "delete"} => lastCall.ncb = 0)
    /\ [][lastCall'.kind = "frame"
            => /\ Ledger' = Top(Main).led
               /\ held' = Top(Main).own
               /\ in_hook'[Main] = Top(Main).pre]_vars

C24_Witness ==
    /\ lastCall.kind = "frame" /\ lastCall.sz > 0 /\ lastCall.p # NULL
    /\ g_cb["onAlloc"] = "mt" /\ g_cb["onFree"] = "mt"
    /\ active_allocs > 0 /\ ~in_hook[Main]

\* C29 (as stated): when a query called by application code with the flag not
\* set has returned and its result has been released, the table and the four
\* metrics are what they were before the call.
C29_QueryLeavesLedger ==
    [][lastCall'.kind = "query" => Ledger' = Top(Main).led]_vars

\* C25: every alloc_id cb.liveBlocks gives to a block is one no exported block
\* was given before, in the same snapshot, in an earlier one or in one another
\* thread is exporting at the same time; within one snapshot the ids increase
\* strictly in output order.
C25_ExportedIdsDistinctAndIncreasing ==
    /\ [][\A t \in Threads :
            Len(out'[t]) > Len(out[t])
                => /\ out'[t][Len(out'[t])] \notin exportedIds
                   /\ exportedIds' = exportedIds \cup {out'[t][Len(out'[t])]}]_vars
    /\ [](\A t \in Threads : \A i, j \in 1..Len(out[t]) :
            i < j => out[t][i] < out[t][j])
    /\ [](\A t, u \in Threads : \A i \in 1..Len(out[t]), j \in 1..Len(out[u]) :
            (xpc[t] = "loop" /\ xpc[u] = "loop" /\ t # u) => out[t][i] # out[u][j])

\* two threads export at the same time, their ids interleaved, after an
\* allocation moved the counter
C25_Witness ==
    \E t, u \in Threads :
        /\ t # u /\ xpc[t] = "loop" /\ xpc[u] = "loop"
        /\ Len(out[t]) = 2 /\ Len(out[u]) >= 1
        /\ out[t][1] < out[u][1] /\ out[u][1] < out[t][2]
        /\ out[t][1] > 0

\* the k-th smallest element of a set of numbers
Nth(S, k) == CHOOSE x \in S : Cardinality({y \in S : y < x}) = k - 1

\* the pieces of text s between the occurrences of sep
Split(s, sep) ==
    LET P == {i \in 1..Len(s) : s[i] = sep}
        n == Cardinality(P)
    IN  [k \in 1..(n + 1) |->
            SubSeq(s, IF k = 1 THEN 1 ELSE Nth(P, k - 1) + 1,
                      IF k = n + 1 THEN Len(s) ELSE Nth(P, k) - 1)]

\* the number a run of decimal digits stands for, -1 if ds is not such a run
\* or has a leading zero
RECURSIVE DigitsValue(_)
DigitsValue(ds) ==
    IF ds = <<>> THEN 0
    ELSE 10 * DigitsValue(SubSeq(ds, 1, Len(ds) - 1))
            + (CHOOSE d \in 0..9 : Digits[d + 1] = ds[Len(ds)])
ParseNat(ds) ==
    IF \/ ds = <<>>
       \/ \E i \in 1..Len(ds) : \A d \in 1..10 : Digits[d] # ds[i]
       \/ (Len(ds) > 1 /\ ds[1] = "0")
    THEN -1
    ELSE DigitsValue(ds)

\* C26: the text summary_json() returns is {"bytes_in_use":B,"peak":P,
\* "alloc_count":C} and nothing else, B, P and C in decimal, where B, P and C
\* are what the active set's bytesInUse, peakBytes and allocCount slots return:
\* active_bytes_, peak_bytes_ and total_allocs_ with the tracker installed, 0
\* with the no-op set.
C26_SummaryJsonFormat ==
    (arg.fn = "summary_json") =>
        LET parts == Split(res, ",")
            B == IF g_cb["bytesInUse"] = "mt" THEN active_bytes ELSE 0
            P == IF g_cb["peakBytes"] = "mt" THEN peak_bytes ELSE 0
            C == IF g_cb["allocCount"] = "mt" THEN total_allocs ELSE 0
        IN  /\ Len(parts) = 3
            /\ Len(Split(parts[1], ":")) = 2
            /\ Split(parts[1], ":")[1] = <<"{", QUOTE, "bytes_in_use", QUOTE>>
            /\ ParseNat(Split(parts[1], ":")[2]) = B
            /\ Len(Split(parts[2], ":")) = 2
            /\ Split(parts[2], ":")[1] = <<QUOTE, "peak", QUOTE>>
            /\ ParseNat(Split(parts[2], ":")[2]) = P
            /\ Len(Split(parts[3], ":")) = 2
            /\ Split(parts[3], ":")[1] = <<QUOTE, "alloc_count", QUOTE>>
            /\ LET last == Split(parts[3], ":")[2] IN
                 /\ last[Len(last)] = "}"
                 /\ ParseNat(SubSeq(last, 1, Len(last) - 1)) = C

C26_Witness ==
    /\ arg.fn = "summary_json" /\ g_cb["bytesInUse"] = "mt"
    /\ active_bytes = 13 /\ peak_bytes = 24 /\ total_allocs = 3

\* the lines of a text: the pieces its newlines end
Lines(text) ==
    LET pieces == Split(text, LF) IN
    IF pieces[Len(pieces)] = <<>> THEN SubSeq(pieces, 1, Len(pieces) - 1)
    ELSE pieces

\* row i of the CSV text gives back the five numbers of block b
RowIsBlock(row, b) ==
    LET cols == Split(row, ",") IN
    /\ Len(cols) >= 6
    /\ ParseNat(cols[1]) = b.ptr
    /\ ParseNat(cols[2]) = b.size
    /\ ParseNat(cols[3]) = b.alloc_id
    /\ ParseNat(cols[4]) = b.thread_id
    /\ ParseNat(cols[5]) = b.t_ns

\* C27 (as stated): the CSV text is the header line and then one line per
\* block, in order, and the first five columns of the line of a block parse
\* back to its address, size, alloc id, thread id and timestamp, whatever the
\* callsite of the block is.
C27_CsvOneLinePerBlock ==
    (arg.fn = "live_allocs_csv") =>
        /\ Len(Lines(res)) = Len(arg.v) + 1
        /\ Lines(res)[1] = CsvHeader
        /\ \A i \in 1..Len(arg.v) : RowIsBlock(Lines(res)[i + 1], arg.v[i])

\* the part of C27 that holds: the same for blocks whose callsite has no
\* newline in it, a comma or not
C27_CsvOneLinePerBlockNoNewline ==
    (/\ arg.fn = "live_allocs_csv"
     /\ \A i \in 1..Len(arg.v) : \A k \in 1..Len(arg.v[i].callsite) :
            arg.v[i].callsite[k] # LF) =>
        /\ Len(Lines(res)) = Len(arg.v) + 1
        /\ Lines(res)[1] = CsvHeader
        /\ \A i \in 1..Len(arg.v) : RowIsBlock(Lines(res)[i + 1], arg.v[i])

\* what the inside of a JSON string literal stands for: backslash followed by
\* quote, backslash or n stands for quote, backslash or newline; a newline that
\* is not escaped and an escape with another letter make the literal invalid
JsonInvalid == <<"invalid">>
RECURSIVE Unescape(_)
Unescape(c) ==
    IF c = <<>> THEN <<>>
    ELSE IF Head(c) = BACKSLASH
    THEN IF Len(c) = 1 THEN JsonInvalid
         ELSE IF c[2] \in {QUOTE, BACKSLASH}
         THEN <<c[2]>> \o Unescape(SubSeq(c, 3, Len(c)))
         ELSE IF c[2] = "n" THEN <<LF>> \o Unescape(SubSeq(c, 3, Len(c)))
         ELSE JsonInvalid
    ELSE IF Head(c) = LF THEN JsonInvalid
    ELSE <<Head(c)>> \o Unescape(Tail(c))

\* the string literals of a JSON text, decoded, in order. A quote opens or
\* closes a literal unless an odd number of backslashes stands right before
\* it; a literal left open makes the text invalid
JsonStrings(t) ==
    LET BsRun(i) == Cardinality({n \in 1..(i - 1) :
                        \A j \in (i - n)..(i - 1) : t[j] = BACKSLASH})
        Q == {i \in 1..Len(t) : t[i] = QUOTE /\ BsRun(i) % 2 = 0}
        n == Cardinality(Q)
    IN  IF n % 2 = 1 THEN <<JsonInvalid>>
        ELSE [k \in 1..(n \div 2) |->
                Unescape(SubSeq(t, Nth(Q, 2 * k - 1) + 1, Nth(Q, 2 * k) - 1))]

\* the string literals of the JSON object of block b, in order
BlockStrings(b) ==
    << <<"ptr">>, to_string(b.ptr), <<"size">>, <<"alloc_id">>, <<"thread_id">>,
       <<"t_ns">>, <<"callsite">>, b.callsite, <<"file">>, b.file, <<"line">>,
       <<"type_name">>, b.type_name >>

\* C28: for every callsite, file and type name over an alphabet with quote,
\* backslash and newline in it, the escaped form between quotes decodes under
\* the JSON string rules to the original string and to nothing more (no quote
\* in it ends the literal early), and the block JSON as a whole has the string
\* literals of its keys and values, each value decoding to the original.
C28_JsonEscapeRoundTrip ==
    (arg.fn = "live_allocs_json") =>
        /\ \A i \in 1..Len(arg.v) :
             \A s \in {arg.v[i].callsite, arg.v[i].file, arg.v[i].type_name} :
                JsonStrings(<<QUOTE>> \o json_escape(s) \o <<QUOTE>>)
                    = <<s>>
        /\ JsonStrings(res)
             = << <<"blocks">> >>
                 \o (IF arg.v = <<>> THEN <<>> ELSE BlockStrings(arg.v[1]))

C28_Witness ==
    /\ arg.fn = "live_allocs_json" /\ Len(arg.v) = 1
    /\ arg.v[1].file = <<BACKSLASH, QUOTE, LF>>
    /\ arg.v[1].type_name = <<QUOTE, BACKSLASH>>
    /\ Len(res) > 60

\* the records of a table
Records(m) == {m[p] : p \in DOMAIN m}

\* the records of the vector a snapshotLive() call on thread t returned
Result(t) == {call[t].out[i] : i \in 1..Len(call[t].out)}

\* C31 (as stated): a snapshotLive() result is the table at the instant the
\* lock was acquired; it holds every record whose onAlloc had completed by then
\* with no completed onFree after it, no record of an address whose onFree had
\* completed, and no two records with the same address.
C31_SnapshotReflectsCompletedCalls ==
    \A t \in Threads :
        (call[t].op = "snapshot" /\ call[t].pc = "returned")
            => /\ Result(t) = Records(call[t].at)
               /\ Records(call[t].notedAt) \subseteq Result(t)
               /\ \A r \in Result(t) : r.ptr \in DOMAIN call[t].notedAt
               /\ \A i, j \in 1..Len(call[t].out) :
                    call[t].out[i].ptr = call[t].out[j].ptr => i = j

\* what holds of it: the result is the table as it was at the lock and as it is
\* at the return, one element per address, and every address in it is one whose
\* last completed call was an onAlloc
C31_SnapshotIsTableAtLock ==
    \A t \in Threads :
        (call[t].op = "snapshot" /\ call[t].pc = "returned")
            => /\ Result(t) = Records(call[t].at)
               /\ Len(call[t].out) = Cardinality(DOMAIN call[t].at)
               /\ {r.ptr : r \in Result(t)} = DOMAIN call[t].notedAt
               /\ \A i, j \in 1..Len(call[t].out) :
                    call[t].out[i].ptr = call[t].out[j].ptr => i = j

\* a snapshot of two records returned while another thread was waiting for the
\* lock with an update
C31_Witness ==
    \E t, u \in Threads :
        /\ call[t].op = "snapshot" /\ call[t].pc = "returned"
        /\ Len(call[t].out) = 2
        /\ call[u].op \in {"onAlloc", "onFree"} /\ call[u].pc = "wait"

\* thread t enters operator new with the flag clear in this step
EntersNew(t) ==
    /\ Len(stk'[t]) = Len(stk[t]) + 1
    /\ stk'[t][Len(stk'[t])].kind = "new"

FrameCalls == {"metrics_frame", "snapshot_frame"}

\* the positions of text at which character c stands
Positions(text, c) == {i \in 1..Len(text) : text[i] = c}

\* C33: a frame the client sends, SUMMARY or LIVE_ALLOCS, has one newline
\* and the newline is its last byte, whatever the file, callsite and type name
\* of the blocks contain.
C33_FrameIsOneLine ==
    arg.fn \in FrameCalls => Positions(res, LF) = {Len(res)}

\* a LIVE_ALLOCS frame of a block whose file, callsite and type name have a
\* newline in them
C33_Witness ==
    /\ arg.fn = "snapshot_frame"
    /\ arg.v # <<>>
    /\ Positions(arg.v[1].file, LF) # {}
    /\ Positions(arg.v[1].callsite, LF) # {}
    /\ Positions(arg.v[1].type_name, LF) # {}
    /\ res[Len(res)] = LF

\* thread t is in an operator new whose on-allocate is the tracker's and has
\* not yet updated the ledger
AboutToRecord(t) ==
    /\ stk[t] # <<>>
    /\ Top(t).kind = "new" /\ Top(t).cb = "mt"
    /\ Top(t).pc \in {"in_cb", "locked"}

\* C34: with threads that allocate and free through the hooks with no guard of
\* their own, and an allocator that hands out any address that is free, the
\* ledger is never given on-allocate for an address that has a record, and
\* activeBytes is the sum of the recorded sizes.
C34_ReusedAddressHasNoRecord ==
    /\ \A t \in Threads : AboutToRecord(t) => Top(t).p \notin DOMAIN live
    /\ activeBytes = SumSizes(live, DOMAIN live)

\* malloc has handed a thread the address another thread's delete had just
\* given back; the ledger has recorded one block and removed its record, and
\* the thread's on-allocate is about to run
C34_Witness ==
    /\ lastCall.kind = "reuse"
    /\ AboutToRecord(lastCall.t)
    /\ Top(lastCall.t).p = lastCall.p
    /\ totalAllocs = 1
    /\ activeAllocs = 0

ExitKinds == {"new", "delete", "bad_alloc", "cb_error"}

\* C36 (as stated): when an allocate or free entry point that was entered with
\* the flag clear hands control back, by a return or by an exception of the
\* on-allocate callback, the thread's flag is clear.
C36_FlagClearOnEveryExit ==
    (lastCall.kind \in ExitKinds /\ ~lastCall.guarded)
        => ~in_hook[lastCall.t]

\* what holds of it: the flag is clear after every exit but the one by an
\* exception of the on-allocate callback
C36_FlagClearOnReturn ==
    (lastCall.kind \in ExitKinds \ {"cb_error"} /\ ~lastCall.guarded)
        => ~in_hook[lastCall.t]

\* C37 (as stated): in every summary built while other threads allocate and
\* free, the reported peak is at least the reported bytes_in_use.
C37_ReportedPeakCoversBytesInUse ==
    \A t \in Threads :
        (call[t].op = "summary" /\ call[t].pc = "returned")
            => call[t].pk >= call[t].b

\* what holds of it: the reported peak is at least the reported bytes_in_use
\* in every summary whose peak was read after its bytes_in_use
C37_PeakCoversBytesInUseReadBefore ==
    \A t \in Threads :
        (call[t].op = "summary" /\ call[t].todo # <<>>
            /\ \E i \in 1..Len(call[t].todo) : call[t].todo[i] = "peakBytes")
          => \/ \E i \in 1..Len(call[t].todo) : call[t].todo[i] = "bytesInUse"
             \/ peakBytesSlot(g_cb) >= call[t].b

\* the first newline-terminated line of a byte stream is the SNAPSHOT command
\* and no second line has ended yet
FirstLineIsCommand(str) ==
    /\ Cardinality(Positions(str, LF)) = 1
    /\ Strip(SubSeq(str, 1, Find(str, LF) - 1)) = Snapshot

\* C38 (as stated): the bytes a connection left unterminated are gone when the
\* next connection begins, and a SNAPSHOT line that is the first line of a
\* connection has been answered with one LIVE_ALLOCS frame once it has been
\* read, whatever the connection before had delivered.
C38_LinesAreOfOneConnection ==
    /\ ev.kind = "connect_ok" => rxBuffer = <<>>
    /\ (sock_ >= 0 /\ wpc # "sending" /\ FirstLineIsCommand(rxConn))
          => nLive = 1

\* ------------------------------- start() and stop() from several threads
\* Any application thread may call start() or stop() on the one client. The
\* background loop is followed here only where it tests running_; what it does
\* between two tests is in the client's own steps above.
raceRest == <<ledgerVars, g_cb, g_init_once, reg, seen, exportVars, serVars,
              callVars, scopes, wpc, spc, backoff_ms, rxBuffer, next_metrics,
              rxConn, nLive, sinceLoss, fails, sinceStop>>

\* start(): lock_guard lk(m_); `if (running_) return;` or host_, port_ and
\* running_ are set
StartEnter(t) ==
    \E target \in Targets :
        /\ ~terminated
        /\ app[t].pc = "idle"
        /\ m_ = 0
        /\ launched < MaxLaunches
        /\ IF running_
           THEN /\ ev' = [NoEvent EXCEPT !.kind = "start_noop"]
                /\ UNCHANGED <<running_, host_, port_, m_, app>>
           ELSE /\ host_' = target[1]
                /\ port_' = target[2]
                /\ running_' = TRUE
                /\ m_' = t
                /\ app' = [app EXCEPT ![t].pc = "launch"]
                /\ ev' = [NoEvent EXCEPT !.kind = "start_locked"]
        /\ UNCHANGED <<sock_, loops, worker_, alive, launched, terminated,
                       raceRest>>

\* start(): std::thread(&Impl::runLoop, this), the temporary: a new thread
\* runs runLoop
StartLaunch(t) ==
    /\ ~terminated
    /\ app[t].pc = "launch"
    /\ launched' = launched + 1
    /\ alive' = alive \cup {launched + 1}
    /\ loops' = Cardinality(alive')
    /\ app' = [app EXCEPT ![t] = [pc |-> "assign", th |-> launched + 1]]
    /\ ev' = [NoEvent EXCEPT !.kind = "launch"]
    /\ UNCHANGED <<running_, sock_, host_, port_, m_, worker_, terminated,
                   raceRest>>

\* start(): worker_ = <the temporary>. std::thread's move assignment calls
\* std::terminate when the handle assigned to is joinable. Then lk is released.
StartAssign(t) ==
    /\ ~terminated
    /\ app[t].pc = "assign"
    /\ IF worker_ # 0
       THEN /\ terminated' = TRUE
            /\ ev' = [NoEvent EXCEPT !.kind = "terminate"]
            /\ UNCHANGED <<worker_, m_, app>>
       ELSE /\ worker_' = app[t].th
            /\ m_' = 0
            /\ app' = [app EXCEPT ![t] = NotCalling]
            /\ ev' = [NoEvent EXCEPT !.kind = "start"]
            /\ UNCHANGED terminated
    /\ UNCHANGED <<running_, sock_, host_, port_, loops, alive, launched,
                   raceRest>>

\* stop(): the block under lock_guard lk(m_): `if (!running_) return;` or
\* running_ = false
StopEnter(t) ==
    /\ ~terminated
    /\ app[t].pc = "idle"
    /\ m_ = 0
    /\ IF running_
       THEN /\ running_' = FALSE
            /\ app' = [app EXCEPT ![t].pc = "join"]
            /\ ev' = [NoEvent EXCEPT !.kind = "stop"]
       ELSE /\ ev' = [NoEvent EXCEPT !.kind = "stop_noop"]
            /\ UNCHANGED <<running_, app>>
    /\ UNCHANGED <<sock_, host_, port_, loops, m_, worker_, alive, launched,
                   terminated, raceRest>>

\* stop(): `if (worker_.joinable()) worker_.join();` returns when the thread
\* the handle stands for has ended; closeSocket(); stop() returns
StopFinish(t) ==
    /\ ~terminated
    /\ app[t].pc = "join"
    /\ worker_ \notin alive
    /\ worker_' = 0
    /\ sock_' = IF sock_ >= 0 THEN closeSocket(sock_) ELSE sock_
    /\ app' = [app EXCEPT ![t] = NotCalling]
    /\ ev' = [NoEvent EXCEPT !.kind = "stopped", !.k = worker_]
    /\ UNCHANGED <<running_, host_, port_, loops, m_, alive, launched,
                   terminated, raceRest>>

\* runLoop on thread id: `if (!running_) break;` taken, closeSocket(), the
\* thread ends
LoopExit(id) ==
    /\ ~terminated
    /\ id \in alive
    /\ ~running_
    /\ alive' = alive \ {id}
    /\ loops' = Cardinality(alive')
    /\ sock_' = IF sock_ >= 0 THEN closeSocket(sock_) ELSE sock_
    /\ ev' = [NoEvent EXCEPT !.kind = "exit"]
    /\ UNCHANGED <<running_, host_, port_, m_, worker_, launched, app,
                   terminated, raceRest>>

NextRace ==
    \/ \E t \in Threads :
        \/ StartEnter(t)
        \/ StartLaunch(t)
        \/ StartAssign(t)
        \/ StopEnter(t)
        \/ StopFinish(t)
    \/ \E id \in 1..MaxLaunches : LoopExit(id)

SpecRace == Init /\ [][NextRace]_vars

\* C39 (as stated): whatever threads call start() and stop(), there is at most
\* one background loop, no thread is launched while the handle of the previous
\* one is still joinable, and a stop() that has returned has left no
\* background loop running.
C39_OneLoopUnderAnyInterleaving ==
    /\ Cardinality(alive) <= 1
    /\ \A t \in Threads : app[t].pc = "assign" => worker_ = 0
    /\ ev.kind \in {"stopped", "stop_noop"} => alive = {}

\* what holds of it: the bodies of start() exclude each other, and the stop()
\* that cleared running_ returns only after the thread it joined has ended
C39_JoiningStopWaitsForItsLoop ==
    /\ Cardinality({t \in Threads : app[t].pc \in {"launch", "assign"}}) <= 1
    /\ ev.kind = "stopped" => ev.k \notin alive

====
